---- MODULE Spec2Model ----
(***************************************************************************)
(* Model of the module reflection-and-persistence pipeline of hou-aibridge *)
(*   zabob/common/analyze_modules.py : modules_in_path, analyze_modules,   *)
(*                                     _load_module, _load_class           *)
(*   zabob/common/analysis_db.py     : analysis_db_writer, get_stored_...  *)
(*                                                                         *)
(* Encodings.  A Python value that may be None, and an SQL value that may  *)
(* be NULL, is a sequence of length 0 (None / NULL) or 1 (<<v>>).  An      *)
(* exception used as ModuleData.status is the pair <<type name, message>>. *)
(***************************************************************************)
EXTENDS Naturals, Sequences, FiniteSets

(***************************************************************************)
(* Bounds of the model.                                                    *)
(***************************************************************************)
MaxEdges == 3
MaxStream == 4
MaxPaths == 2

None == << >>
Some(v) == <<v>>
IsNone(o) == Len(o) = 0

(***************************************************************************)
(* analysis_types.py                                                       *)
(***************************************************************************)
\* EntryType (a StrEnum): the members used by the walker, as their values.
EntryType == {"MODULE", "CLASS", "FUNCTION", "METHOD", "ENUM", "OBJECT", "ATTRIBUTE", "ENUMTYPE"}

\* common_utils.get_name on an EntryType: the Enum case returns the member's
\* NAME, which differs from its value for ENUM_TYPE = 'ENUMTYPE'.
get_name(t) == IF t = "ENUMTYPE" THEN "ENUM_TYPE" ELSE t

\* isinstance(status, Exception)
IsException(status) == Len(status) = 2

\* ModuleData(name, file, count, status, reason) with __post_init__: the reason
\* defaults to str(status) when the status is an exception.
ModuleData(name, count, status, reason) ==
    [rec |-> "ModuleData", name |-> name, count |-> count, status |-> status,
     reason |-> IF IsException(status) /\ IsNone(reason) THEN Some(status[2]) ELSE reason]

\* HoudiniStaticData(name, type, datatype, parent_name, parent_type)
HoudiniStaticData(name, type, datatype, parent_name, parent_type) ==
    [rec |-> "HoudiniStaticData", name |-> name, type |-> type, datatype |-> datatype,
     parent_name |-> parent_name, parent_type |-> parent_type]

VARIABLES
    \* ---- the environment of one run (fixed by Init)
    members,        \* public members of every module and class object
    candidates,     \* names produced by candidates_in_dir, in order
    done,           \* the resumability set of module names
    ignore,         \* the names of the ignore mapping
    consumer,       \* what the caller does with the generator writer(item)
                    \* returns: "drain" (iterates it to its end), "next"
                    \* (takes the first item and drops it), "call" (never
                    \* starts it)
    db_path,        \* the writer context was entered with a path (TRUE) or
                    \* with a connection of the caller (FALSE)
    \* ---- modules_in_path and analyze_modules
    mip_pc,         \* position of modules_in_path: "path", "sys", "end"
    mip_idx,        \* index of the next candidate / next sys.modules entry
    mip_seen,       \* modules_in_path's seen set
    seen,           \* the seen set of the current root's _load_module
    queue,          \* analyze_modules' deque of (parent datum, module)
    queued,         \* analyze_modules' queued set
    appended,       \* history: the appends to the queue made during the walk
                    \* of the current root, each with the number of records
                    \* emitted before it
    stack,          \* active _load_module / _load_class generator frames
    \* ---- analysis_db_writer
    item_count,
    cur_module,
    houdini_modules,
    houdini_module_data,
    foreign_keys,   \* PRAGMA foreign_keys of the connection
    in_txn,         \* a transaction is pending on the connection
    uncommitted,    \* INSERTs into houdini_module_data since the last commit
    committed,      \* the two tables as of the last commit: what a crash leaves
    pending,        \* the modules that were cur_module when an INSERT into
                    \* houdini_module_data was executed that is not committed
    crash_points,   \* history: `committed` and `pending` after each statement
                    \* of the last writer call
    at_yield,       \* the datum of the writer generator that is suspended at
                    \* its yield, or None
    error,          \* exception that ended the run, or "none"
    \* ---- history and harness
    received,       \* records handed to the writer in this run, in order
    pass,           \* harness: 0 (pipeline), 1 first pass, 2 replay, 3 finished,
                    \* 4 (directory scan), 5 (mock chain), 6 (one value),
                    \* 7 (one field type), 8 (long stream),
                    \* 9 (one call of _mk_datum),
                    \* 10 (one table descriptor),
                    \* 11 (one generator of get_stored_modules)
    tape,           \* writer harness: the stream of the first pass
    snapshot,       \* writer harness: houdini_module_data after the first pass
    stored,         \* the generator of the last get_stored_modules call: its
                    \* arguments, its position, the rows fetched and not yet
                    \* yielded, the names yielded
    \* ---- the interpreter state import_or_warn patches
    host,           \* sys.exit, atexit.register, atexit.unregister and
                    \* os.environ['HOUDINI_ENABLE_HOM_EXTENSIONS']
    iow,            \* saved values of the import_or_warn generator suspended
                    \* at `yield module`, or None
    imports,        \* history: the calls of import_or_warn with a name
    hou_init,       \* _init_hou, which adds sys.modules['hdefereval']: "no"
                    \* (not run), "path" (run before the pass over sys.modules
                    \* began), "sys" (run while that pass iterates sys.modules)
    categories,     \* hou.nodeTypeCategories() of the host: the node type
                    \* categories with their node types and parameters
    \* ---- candidates_in_dir
    fs,             \* the file system: the entries of every directory
    paths,          \* the search paths given to modules_in_path
    path_idx,       \* index of the next search path
    found,          \* candidates that passed reject_name so far, in order
    \* ---- infinite_mock.py
    mock,           \* the InfiniteMock the next access is made on
    mock_step,      \* the last access made on it, or None
    mock_result,    \* what that access returned or raised
    mock_depth,     \* length of the chain that led to `mock`
    \* ---- functions of one argument
    input,          \* the argument
    output          \* None, or the result once the function has been applied

envvars == <<members, candidates, done, ignore, consumer, db_path, categories>>
walkvars == <<mip_pc, mip_idx, mip_seen, seen, queue, queued, appended, stack>>
dbvars == <<item_count, cur_module, houdini_modules, houdini_module_data,
            foreign_keys, in_txn, uncommitted, committed, pending, crash_points,
            at_yield, error>>
hostvars == <<host, iow, imports, hou_init>>
scanvars == <<fs, paths, path_idx, found>>
mockvars == <<mock, mock_step, mock_result, mock_depth>>
purevars == <<input, output>>
vars == <<members, candidates, done, ignore, consumer, db_path, categories,
          mip_pc, mip_idx, mip_seen, seen, queue, queued, appended, stack,
          item_count, cur_module, houdini_modules, houdini_module_data,
          foreign_keys, in_txn, uncommitted, committed, pending, crash_points,
          at_yield, error,
          received, pass, tape, snapshot, stored,
          host, iow, imports, hou_init, fs, paths, path_idx, found,
          mock, mock_step, mock_result, mock_depth, input, output>>

\* No InfiniteMock is under access, and no function is under application.
NoMock == mock = << >> /\ mock_step = << >> /\ mock_result = << >> /\ mock_depth = 0
NoInput == input = << >> /\ output = << >>

(***************************************************************************)
(* analysis_db.py : the writer                                             *)
(***************************************************************************)
\* The writer's state as one record, so that the handler can be written as a
\* function from state and datum to state.
WriterState ==
    [item_count |-> item_count, cur_module |-> cur_module,
     houdini_modules |-> houdini_modules,
     houdini_module_data |-> houdini_module_data,
     foreign_keys |-> foreign_keys, in_txn |-> in_txn,
     uncommitted |-> uncommitted, committed |-> committed,
     pending |-> pending, crash_points |-> crash_points, error |-> error]

\* The tables of a database: houdini_modules and houdini_module_data.
Tables(mods, data) == [houdini_modules |-> mods, houdini_module_data |-> data]

\* State of analysis_db_writer on entry (item_count = 0, cur_module = None)
\* over a database with the given tables; init_db has run
\* PRAGMA foreign_keys = ON, which takes effect only outside a transaction.
WriterEntry(mods, data, fk, txn) ==
    [item_count |-> 0, cur_module |-> None,
     houdini_modules |-> mods, houdini_module_data |-> data,
     foreign_keys |-> IF txn THEN fk ELSE TRUE, in_txn |-> txn,
     uncommitted |-> IF txn THEN uncommitted ELSE 0,
     committed |-> IF txn THEN committed ELSE Tables(mods, data),
     pending |-> IF txn THEN pending ELSE {},
     crash_points |-> << >>, error |-> "none"]

\* A statement has been executed: a crash now leaves the committed tables,
\* without the INSERTs that are pending.
Executed(w) ==
    [w EXCEPT !.crash_points =
                 Append(@, [committed |-> w.committed, pending |-> w.pending])]

\* conn.commit(): the pending transaction, if any, becomes durable.
commit(w) ==
    Executed([w EXCEPT !.in_txn = FALSE, !.uncommitted = 0, !.pending = {},
                       !.committed = Tables(w.houdini_modules,
                                            w.houdini_module_data)])

\* UPDATE houdini_modules SET count = ?, status = ?, reason = ? WHERE name = ?
UpdateModule(T, name, count, status, reason) ==
    { IF r.name = name
        THEN [r EXCEPT !.count = count, !.status = status, !.reason = reason]
        ELSE r : r \in T }

\* INSERT OR REPLACE INTO houdini_modules: name is the primary key.
ReplaceModule(T, row) == { r \in T : r.name # row.name } \cup {row}

\* The status bound to the INSERT if it were str(status): the message.
StoredStatusStr(status) == IF IsException(status) THEN Some(status[2]) ELSE status

\* The status bound to the INSERT: an exception is replaced by the name of
\* its type, a string or None is stored as it is.
StoredStatus(status) == IF IsException(status) THEN Some(status[1]) ELSE status

RECURSIVE DropKey(_, _, _)
\* The rows of a table (a sequence, in insertion order) without the row of
\* primary key (name, type).
DropKey(T, name, type) ==
    IF T = << >> THEN << >>
    ELSE IF T[1].name = name /\ T[1].type = type
         THEN DropKey(Tail(T), name, type)
         ELSE <<T[1]>> \o DropKey(Tail(T), name, type)

\* A table that does not resolve the conflict on (name, type): the new row is
\* stored next to the old one.
InsertNoConflictClause(T, row) == Append(T, row)

\* INSERT OR REPLACE INTO houdini_module_data, PRIMARY KEY (name, type) ON
\* CONFLICT REPLACE: the row with the same key is deleted, the new one added.
InsertOrReplace(T, row) == Append(DropKey(T, row.name, row.type), row)

\* FOREIGN KEY (parent_name, parent_type) REFERENCES houdini_module_data
\* (name, type): some row has the referenced key.
ParentRowExists(T, row) ==
    \E i \in 1..Len(T) : /\ T[i].name = row.parent_name[1]
                         /\ T[i].type = row.parent_type[1]

\* The row the INSERT OR REPLACE INTO houdini_modules binds.
StoredModule(datum) ==
    [name |-> datum.name, count |-> datum.count,
     status |-> StoredStatus(datum.status), reason |-> datum.reason]

\* case ModuleData() of writer up to its `yield datum`, statement by
\* statement, with the row bound to the INSERT.  Both branches yield with the
\* INSERT executed and not committed.
writerModuleDataRow(w, datum, row) ==
    LET \* if cur_module is not None: UPDATE ... SET count, status 'OK', reason NULL
        w1 == IF ~IsNone(w.cur_module)
                THEN Executed([w EXCEPT !.houdini_modules =
                                           UpdateModule(@, w.cur_module[1].name,
                                                        Some(w.item_count), Some("OK"), None),
                                        !.in_txn = TRUE])
                ELSE w
        \* conn.commit()
        w2 == commit(w1)
        \* INSERT OR REPLACE INTO houdini_modules; item_count = 0
        w3 == Executed([w2 EXCEPT !.houdini_modules = ReplaceModule(@, row),
                                  !.item_count = 0, !.in_txn = TRUE])
    IN  w3

\* case ModuleData() of writer after its `yield datum`: a skipped module
\* returns, and its INSERT stays uncommitted; for an opened module
\* cur_module = datum; conn.commit()
writerModuleDataResume(w, datum) ==
    IF ~IsNone(datum.status)
      THEN w
      ELSE commit([w EXCEPT !.cur_module = Some(datum)])

\* case ModuleData() of a writer that stores 'OK' already when it opens the
\* module.
writerModuleData_ok_at_open(w, datum) ==
    writerModuleDataRow(w, datum,
        [StoredModule(datum) EXCEPT !.status = IF IsNone(datum.status) THEN Some("OK") ELSE @])

\* case ModuleData() of writer up to its `yield datum`
writerModuleData(w, datum) == writerModuleDataRow(w, datum, StoredModule(datum))

\* The row bound to the INSERT of an entity: type and parent_type go through
\* get_name.
DataRow(datum) ==
    [name |-> datum.name, type |-> get_name(datum.type), datatype |-> datum.datatype,
     parent_name |-> datum.parent_name,
     parent_type |-> IF IsNone(datum.parent_type) THEN None
                     ELSE Some(get_name(datum.parent_type[1]))]

\* The number item_count is compared with: `if item_count % 100 == 0`.
CommitEvery == 100

\* The name of cur_module, or None.
OpenModule(w) == IF IsNone(w.cur_module) THEN None ELSE Some(w.cur_module[1].name)

\* INSERT OR REPLACE INTO houdini_module_data, executed for cur_module.
InsertData(w, row) ==
    Executed([w EXCEPT !.in_txn = TRUE,
                       !.uncommitted = @ + 1,
                       !.pending = @ \cup {OpenModule(w)},
                       !.houdini_module_data = InsertOrReplace(@, row)])

\* case HoudiniStaticData() of writer from `if datum.parent_name is not None`
\* on.
writerInsertData(w, datum) ==
    LET row == DataRow(datum)
    IN  IF ~IsNone(datum.parent_name)
          THEN IF w.foreign_keys /\ ~ParentRowExists(w.houdini_module_data, row)
                 THEN \* sqlite3.IntegrityError: FOREIGN KEY constraint failed
                      [w EXCEPT !.in_txn = TRUE, !.error = "IntegrityError"]
                 ELSE InsertData(w, row)
          ELSE \* PRAGMA foreign_keys = OFF (no-op inside a transaction); commit;
               \* INSERT; PRAGMA foreign_keys = ON (inside the INSERT's
               \* transaction, so a no-op); commit
               LET w1 == commit([w EXCEPT !.foreign_keys = IF w.in_txn THEN @ ELSE FALSE])
               IN  commit(InsertData(w1, row))

\* case HoudiniStaticData() of writer, without the commit on every
\* hundredth item.
writerStaticData_no_commit(w, datum) ==
    writerInsertData([w EXCEPT !.item_count = @ + 1], datum)

\* case HoudiniStaticData() of writer up to its `yield datum`, which is its
\* last statement
writerStaticData(w, datum) ==
    LET n == w.item_count + 1
        w1 == [w EXCEPT !.item_count = n]
    IN  \* if item_count % 100 == 0: conn.commit()
        writerInsertData(IF n % CommitEvery = 0 THEN commit(w1) ELSE w1, datum)

\* writer is a generator function.  writer(datum) started and run up to its
\* `yield datum`, or to its end when the match statement has no case for the
\* datum, or to the exception that leaves it.
writer(w, datum) ==
    LET w0 == [w EXCEPT !.crash_points = << >>]
    IN  IF datum.rec = "ModuleData" THEN writerModuleData(w0, datum)
        ELSE IF datum.rec = "HoudiniStaticData" THEN writerStaticData(w0, datum)
        ELSE w0

\* The generator of writer(datum) resumed after its yield and run to its end.
writer_resume(w, datum) ==
    IF datum.rec = "ModuleData" THEN writerModuleDataResume(w, datum) ELSE w

\* The match statement of writer has a case for the datum: the generator
\* yields once.
WriterYields(datum) == datum.rec \in {"ModuleData", "HoudiniStaticData"}

\* The writer variables become those of the state w.
WriterBecomes(w) ==
    /\ item_count' = w.item_count
    /\ cur_module' = w.cur_module
    /\ houdini_modules' = w.houdini_modules
    /\ houdini_module_data' = w.houdini_module_data
    /\ foreign_keys' = w.foreign_keys
    /\ in_txn' = w.in_txn
    /\ uncommitted' = w.uncommitted
    /\ committed' = w.committed
    /\ pending' = w.pending
    /\ crash_points' = w.crash_points

\* The consumer calls writer(datum) and asks the generator for its first
\* item: the body runs up to the yield and stays suspended there.  A consumer
\* that only calls writer(datum) never starts the body; next() on a generator
\* that ends without a yield raises StopIteration, which a for loop absorbs.
CallWriter(datum) ==
    IF consumer = "call"
      THEN UNCHANGED dbvars
      ELSE LET w == writer(WriterState, datum)
           IN  /\ WriterBecomes(w)
               /\ at_yield' = IF w.error = "none" /\ WriterYields(datum)
                                 THEN Some(datum) ELSE None
               /\ error' = IF w.error = "none" /\ ~WriterYields(datum)
                                /\ consumer = "next"
                             THEN "StopIteration" ELSE w.error

\* A record is emitted: the consumer gives it to the writer.
Write(datum) ==
    /\ CallWriter(datum)
    /\ received' = Append(received, datum)

\* SQL comparison of a nullable column with a literal: NULL = 'x' and
\* NULL <> 'x' are both unknown, and WHERE keeps only rows that are true.
SqlEq(col, lit) == ~IsNone(col) /\ col[1] = lit
SqlNe(col, lit) == ~IsNone(col) /\ col[1] # lit

\* get_stored_modules with queries that lack the WHERE clause.
get_stored_modules_no_where(T, successful, failed) ==
    (IF successful THEN { r.name : r \in T } ELSE {})
    \cup
    (IF failed THEN { r.name : r \in T } ELSE {})

\* get_stored_modules(successful, failed): the set of names yielded.
get_stored_modules(T, successful, failed) ==
    (IF successful THEN { r.name : r \in { x \in T : SqlEq(x.status, "OK") } } ELSE {})
    \cup
    (IF failed THEN { r.name : r \in { x \in T : SqlNe(x.status, "OK") } } ELSE {})

\* get_stored_modules without its except clause: the error leaves the
\* generator.
SqliteErrorPropagates(names) == [names |-> names, raised |-> Some("sqlite3.Error")]

\* except sqlite3.Error: the error is printed and the generator ends; the
\* names yielded before it stay yielded.
SqliteErrorCaught(names) == [names |-> names, raised |-> None]

\* The database errors a call can meet: in the query of sqlite_master, in the
\* first SELECT (run when successful) or in the second (run when failed).
Faults(exists, successful, failed) ==
    {"none", "check"}
    \cup (IF exists /\ successful THEN {"first"} ELSE {})
    \cup (IF exists /\ failed THEN {"second"} ELSE {})

\* The state of a generator get_stored_modules(...) returns, before its
\* first statement has run.
StoredGenerator(db, exists, successful, failed, fault) ==
    [db |-> db, exists |-> exists, successful |-> successful, failed |-> failed,
     fault |-> fault, pc |-> "start", rows |-> {}, names |-> << >>,
     raised |-> None, first |-> None, second |-> None, writes |-> 0]

\* The generator ends: by return, by falling off its end, or by an exception.
StoredEnds(g, raised) == [g EXCEPT !.pc = "end", !.rows = {}, !.raised = raised]

\* except sqlite3.Error in the generator g
StoredCaught(g) ==
    LET r == SqliteErrorCaught(g.names)
    IN  [StoredEnds(g, r.raised) EXCEPT !.names = r.names]

\* The generator from its first statement to the loop over the rows of the
\* first SELECT: analysis_db raises without a path and a connection and for
\* a path that does not exist, and sqlite3.connect, which analysis_db calls
\* outside the try block of the generator, raises for a path that cannot be
\* opened (a directory, a file without read permission); the generator
\* returns when sqlite_master has no table houdini_modules; with successful
\* the first SELECT is executed and fetchall() takes its rows from the
\* table T.
get_stored_modules_start(g, T) ==
    IF g.db = "neither"
      THEN StoredEnds(g, Some("ValueError"))
    ELSE IF g.db = "missing"
      THEN StoredEnds(g, Some("FileNotFoundError"))
    ELSE IF g.db = "path" /\ g.fault = "connect"
      THEN StoredEnds(g, Some("sqlite3.OperationalError"))
    ELSE IF g.fault = "check" THEN StoredCaught(g)
    ELSE IF ~g.exists THEN StoredEnds(g, None)
    ELSE IF ~g.successful THEN [g EXCEPT !.pc = "first", !.rows = {}]
    ELSE IF g.fault = "first" THEN StoredCaught(g)
    ELSE [g EXCEPT !.pc = "first", !.first = Some(T),
                   !.rows = get_stored_modules(T, TRUE, FALSE)]

\* The generator after the loop over the rows of the first SELECT: with
\* failed the second SELECT is executed, and fetchall() takes its rows from
\* the table T as it is then.
get_stored_modules_second(g, T) ==
    IF ~g.failed THEN StoredEnds(g, None)
    ELSE IF g.fault = "second" THEN StoredCaught(g)
    ELSE [g EXCEPT !.pc = "second", !.second = Some(T),
                   !.rows = get_stored_modules(T, FALSE, TRUE)]

\* The generator g, asked for its next item over the table T, run up to its
\* next yield (rows is not empty) or to its end.
get_stored_modules_next(g, T) ==
    LET g1 == IF g.pc = "start" THEN get_stored_modules_start(g, T) ELSE g
        g2 == IF g1.pc = "first" /\ g1.rows = {}
                THEN get_stored_modules_second(g1, T) ELSE g1
    IN  IF g2.pc = "second" /\ g2.rows = {} THEN StoredEnds(g2, None) ELSE g2

(***************************************************************************)
(* The host's object graph.  Objects are compared by identity; two objects *)
(* may be reached from several parents.  "ma", "mb", "mc", "md" are        *)
(* modules ("md" is imported by no candidate name and is not in            *)
(* sys.modules),                                                           *)
(* "k1" is a plain class, "k2" a subclass of hou.EnumValue, "ev" the class *)
(* hou.EnumValue, "f" a plain function.  "mx" is a module and "kx" a class *)
(* for which inspect.getmembers raises.  "bm" is a bound method, "blt" a   *)
(* builtin function for which inspect.signature raises, "pr" a property    *)
(* and "n1" an int.  "k3" is a subclass of enum.Enum and "r1" its member;   *)
(* "pn" and "pv" are the attributes name and value it has from enum.Enum. *)
(***************************************************************************)
Modules == {"ma", "mb", "mc", "md", "mx"}
Classes == {"k1", "k2", "k3", "ev", "kx"}
Functions == {"f"}
\* instances of hou.EnumValue: values of an enumeration of the host, members
\* of a module or of a class, not containers themselves
EnumValues == {"e1"}
\* ismethod(member): a bound method
BoundMethods == {"bm"}
\* isinstance(member, builtin_function_or_method)
Builtins == {"blt"}
\* isinstance(member, property); a property is a data descriptor
Properties == {"pr"}
\* isinstance(member, Enum): a member of a subclass of enum.Enum
EnumMembers == {"r1"}
\* issubclass(cls, Enum): the classes made by enum.EnumType
EnumClasses == {"k3"}
\* Enum.name and Enum.value, instances of enum.property: data descriptors
\* that are not instances of the builtin property
EnumProperties == {"pn", "pv"}
\* values that are none of the above
PlainValues == {"n1"}
Containers == Modules \cup Classes

\* __name__ of an object; also the attribute name under which it is a member.
ObjName(o) ==
    CASE o = "ma" -> "a" [] o = "mb" -> "b" [] o = "mc" -> "c"
      [] o = "k1" -> "K" [] o = "k2" -> "L" [] o = "f" -> "f"
      [] o = "ev" -> "EnumValue" [] o = "md" -> "d"
      [] o = "kx" -> "X" [] o = "mx" -> "e" [] o = "e1" -> "v"
      [] o = "blt" -> "g" [] o = "n1" -> "i" [] o = "bm" -> "m" [] o = "pr" -> "p"
      [] o = "k3" -> "Col" [] o = "r1" -> "RED"
      [] o = "pn" -> "name" [] o = "pv" -> "value"

\* type(o).__name__
TypeName(o) ==
    IF o \in Modules THEN "module"
    ELSE IF o = "k3" THEN "EnumType"
    ELSE IF o \in Classes THEN "type"
    ELSE IF o \in EnumMembers THEN ObjName("k3")
    ELSE IF o \in EnumValues THEN "EnumValue"
    ELSE IF o \in BoundMethods THEN "method"
    ELSE IF o \in Builtins THEN "builtin_function_or_method"
    ELSE IF o \in Properties \cup EnumProperties THEN "property"
    ELSE IF o \in PlainValues THEN "int" ELSE "function"

\* hasattr(o, '__name__'): modules, classes, functions and methods have one;
\* an instance of hou.EnumValue, a member of an Enum, a property and an int
\* have none.
HasName(o) ==
    o \notin EnumValues \cup EnumMembers \cup Properties \cup EnumProperties
                \cup PlainValues

\* type(o).__module__ as object.__repr__ prints it: nothing for a builtin
\* type.
TypeModule(o) ==
    IF o \in EnumValues THEN "hou."
    ELSE IF o \in EnumProperties THEN "enum."
    ELSE ""

\* The addresses an object may have; they differ from run to run.
Addresses == {"0x7f3a10c0a1b0", "0x7f3a10c0a200"}

\* hex(id(o)): the address of the object given to the call under study, an
\* input of the call.
id(o) == input.id

\* str(o) of an object without __name__: the number, Class.MEMBER for a
\* member of an Enum, else object.__repr__, which shows the type with its
\* module and the address of the object.
StrOf(o) ==
    IF o \in PlainValues THEN "1"
    ELSE IF o \in EnumMembers THEN TypeName(o) \o "." \o ObjName(o)
    ELSE "<" \o TypeModule(o) \o TypeName(o) \o " object at " \o id(o) \o ">"

\* inspect.signature(o) succeeds
HasSignature(o) == o \in Functions \cup BoundMethods

\* inspect.getmembers returns the members sorted by name; in code point order
\* "Col" < "EnumValue" < "K" < "L" < "RED" < "X" < "a" < "b" < "c" < "d" < "e"
\* < "f" < "g" < "i" < "m" < "name" < "p" < "v" < "value".
MemberOrder == <<"k3", "ev", "k1", "k2", "r1", "kx", "ma", "mb", "mc", "md", "mx",
                 "f", "blt", "n1", "bm", "pn", "pr", "e1", "pv">>

\* The references an object graph of the model may contain: nested modules,
\* classes shared by modules, a module held by a class, nested classes, and
\* cycles among modules and among classes.
AllowedEdges ==
    { <<"ma", "k1">>, <<"ma", "mb">>, <<"ma", "f">>, <<"ma", "ev">>,
      <<"mb", "k1">>, <<"mb", "mc">>,
      <<"mc", "ma">>, <<"mc", "k2">>,
      <<"k1", "mc">>, <<"k1", "f">>, <<"k1", "k2">>,
      <<"k2", "k1">> }

\* The candidate names of the directory scan.  "x" is a file whose import
\* raises, "zabob.common" a module of the pipeline itself, "q" a file that
\* calls sys.exit(1) when imported, "n" a name for which import_module
\* returns an object that is not a module, "e" a file whose top level code
\* runs `raise SystemExit(1)` (as the builtins exit() and quit() do), "k" a
\* file whose import is interrupted by KeyboardInterrupt.  modules_in_path
\* does not remove duplicates: a name found under two search paths, or as
\* x.py beside the package x, is a candidate twice.
CandidateLists ==
    { <<"a", "x", "zabob.common", "q", "n", "b", "b">>, <<"b", "a">>,
      <<"x", "x">>, <<"e", "a">>, <<"k">> }

\* The runs of the model: the done set, the names of the ignore mapping, and
\* the value os.environ['HOUDINI_ENABLE_HOM_EXTENSIONS'] has when the run
\* starts (None when it is not set).
Scenarios ==
    { <<{}, {}, None>>, <<{"a"}, {}, Some("0")>>, <<{"b"}, {}, Some("1")>>,
      <<{"c"}, {}, None>>, <<{}, {"b"}, Some("0")>>, <<{"c"}, {"a"}, Some("1")>> }

\* sys.modules.values() at the time of the final pass.
SysModules == <<"ma", "mb", "mc">>

\* ignore[name]
IgnoreReason(name) == "known to crash"

\* importlib.import_module(name): the object returned, or None when the
\* import raises.
import_module(name) ==
    CASE name = "a" -> Some("ma") [] name = "b" -> Some("mb")
      [] name = "c" -> Some("mc") [] name = "n" -> Some("f") [] OTHER -> None

\* prevent_exit's exit_handler(code): the exception it raises.
exit_handler(code) == <<"RuntimeError", "Module attempted to exit with code " \o code>>

\* The call sys.exit(code) made by a module, in host state h: the handler
\* installed by prevent_exit raises RuntimeError, any other sys.exit raises
\* SystemExit.
SysExit(h, code) ==
    IF h.sys_exit = "exit_handler" THEN exit_handler(code) ELSE <<"SystemExit", code>>

\* The exception import_module raises for a name that cannot be imported,
\* in host state h: the one the top level code of the module raises, else
\* ModuleNotFoundError.
ImportException(name, h) ==
    CASE name = "q" -> SysExit(h, "1")
      [] name = "e" -> <<"SystemExit", "1">>
      [] name = "k" -> <<"KeyboardInterrupt", "">>
      [] OTHER -> <<"ModuleNotFoundError", "No module named '" \o name \o "'">>

\* What the top level code of a module does to the interpreter state while
\* it is imported: "a" sets the environment variable and replaces sys.exit,
\* "b" deletes the environment variable, "q" sets it before it calls
\* sys.exit.
ImportEffect(name, h) ==
    CASE name = "a" -> [h EXCEPT !.environ = Some("0"), !.sys_exit = "hook"]
      [] name = "b" -> [h EXCEPT !.environ = None]
      [] name = "q" -> [h EXCEPT !.environ = Some("0")]
      [] OTHER -> h

\* An except clause that catches ImportError and its subclasses only.
IsImportErrorInstance(e) == e[1] = "ModuleNotFoundError"

\* isinstance(e, Exception): SystemExit and KeyboardInterrupt derive from
\* BaseException only.
IsExceptionInstance(e) == e[1] \in {"ModuleNotFoundError", "RuntimeError", "TypeError"}

\* The stems of the file names and the names of the directories of the model.
Stems == {"m", "s", "t", "tool", "common", "__init__", "__main__",
          "P", "Q", "R", "N", "test", "root", "lib", "zabob"}

\* name.startswith('zabob.')
StartsWithZabob(name) == \E rest \in Stems : name = "zabob." \o rest

\* name.startswith('_')
StartsWithUnderscore(name) == name \in {"_P"}

\* issubclass(cls, (Enum, hou.EnumValue))
IsEnumSubclass(cls) == cls \in {"k2", "k3", "ev"}


\* The objects for which inspect.getmembers raises: the host application
\* throws when they are reflected.
GetMembersRaises(obj) == obj \in {"kx", "mx"}

\* The members inspect.getmembers finds on a class through its bases: a
\* subclass of enum.Enum has the attributes name and value of Enum.
InheritedMembers(obj) == IF obj \in EnumClasses THEN EnumProperties ELSE {}

\* get_members_safe without its except clause: the exception leaves the
\* generator.
MembersErrorPropagates(e) == [members |-> << >>, raised |-> Some(e)]

\* except Exception as e: a warning is printed and the generator ends.
MembersErrorCaught(e) == [members |-> << >>, raised |-> None]

\* get_members_safe(obj) consumed to its end: the members yielded, without
\* those whose name starts with an underscore (both loops skip them first),
\* and the exception that leaves the generator.  getmembers builds the whole
\* list before it returns, so an exception comes before the first member.
get_members(obj) ==
    IF GetMembersRaises(obj)
      THEN MembersErrorCaught(<<"OperationFailed", "cannot reflect " \o ObjName(obj)>>)
      ELSE [members |-> SelectSeq(MemberOrder,
                                  LAMBDA o : o \in members[obj] \cup InheritedMembers(obj)),
            raised |-> None]

\* The members get_members_safe(obj) yields.
get_members_safe(obj) == get_members(obj).members

\* The public members of hou.primType, the host's enumeration of primitive
\* types: values of the enumeration.
PrimTypeMembers == <<"e1">>

\* ishouenumtype(v): a class with a public member that is an instance of
\* hou.EnumValue, when every public member of hou.primType is one.
ishouenumtype(v) ==
    /\ v \in Classes
    /\ \E i \in 1..Len(get_members_safe(v)) : get_members_safe(v)[i] \in EnumValues
    /\ \A i \in 1..Len(PrimTypeMembers) : PrimTypeMembers[i] \in EnumValues

(***************************************************************************)
(* analyze_modules.py : discovery                                          *)
(***************************************************************************)
Nothing == [kind |-> "nothing"]
ItemName(n) == [kind |-> "name", name |-> n]
ItemData(md) == [kind |-> "ModuleData", md |-> md]
ItemModule(m) == [kind |-> "module", obj |-> m]

\* reject_name that does not look the name up in the ignore mapping.
reject_name_no_ignore(name) ==
    IF name \in done THEN Nothing
    ELSE IF StartsWithZabob(name) THEN Nothing
    ELSE ItemName(name)

\* reject_name(name, done, ignore, file): what the generator yields.
reject_name(name) ==
    IF name \in done THEN Nothing
    ELSE IF StartsWithZabob(name) THEN Nothing
    ELSE IF name \in ignore
         THEN ItemData(ModuleData(name, None, Some("IGNORE"), Some(IgnoreReason(name))))
         ELSE ItemName(name)

ItemRaise(exc) == [kind |-> "raise", exc |-> exc]

(***************************************************************************)
(* common_utils.py : the context managers import_or_warn runs under        *)
(***************************************************************************)
\* The interpreter state before the pipeline touches it.
Host(environ) ==
    [sys_exit |-> "original", atexit_register |-> "original",
     atexit_unregister |-> "original", environ |-> environ]

\* environment(HOUDINI_ENABLE_HOM_EXTENSIONS='1'), entry: update_after holds
\* the old value when the variable was set, remove_after says that it was not.
environment_saved(h) == [update_after |-> h.environ, remove_after |-> IsNone(h.environ)]
environment_enter(h) == [h EXCEPT !.environ = Some("1")]
\* environment, finally: env.update(update_after), then the keys of
\* remove_after are deleted.
environment_exit(h, saved) ==
    LET updated == IF IsNone(saved.update_after) THEN h.environ ELSE saved.update_after
    IN  [h EXCEPT !.environ = IF saved.remove_after THEN None ELSE updated]

\* prevent_exit: sys.exit = exit_handler; finally sys.exit = original_exit
prevent_exit_enter(h) == [h EXCEPT !.sys_exit = "exit_handler"]
prevent_exit_exit(h, original_exit) == [h EXCEPT !.sys_exit = original_exit]

\* prevent_atexit: both functions replaced; finally both restored
prevent_atexit_enter(h) ==
    [h EXCEPT !.atexit_register = "fake_register",
              !.atexit_unregister = "fake_unregister"]
prevent_atexit_exit(h, original_register, original_unregister) ==
    [h EXCEPT !.atexit_register = original_register,
              !.atexit_unregister = original_unregister]

\* The values the three context managers of import_or_warn save on entry,
\* each read when its manager is entered.
iow_saved(h) ==
    LET h1 == environment_enter(h)
        h2 == prevent_exit_enter(h1)
    IN  [env |-> environment_saved(h),
         original_exit |-> h1.sys_exit,
         original_register |-> h2.atexit_register,
         original_unregister |-> h2.atexit_unregister]

\* The host state inside the three with blocks.
iow_enter(h) == prevent_atexit_enter(prevent_exit_enter(environment_enter(h)))

\* import_or_warn whose with blocks restore nothing when they are left.
iow_exit_no_restore(h, saved) == h

\* The three with blocks are left, innermost first.
iow_exit(h, saved) ==
    environment_exit(
        prevent_exit_exit(
            prevent_atexit_exit(h, saved.original_register, saved.original_unregister),
            saved.original_exit),
        saved.env)

\* The generator suspended at `yield module` is resumed: it leaves the with
\* blocks and ends.
iow_resume(h, suspended) == IF IsNone(suspended) THEN h ELSE iow_exit(h, suspended[1])

\* import_or_warn(module_name) called in host state h, run up to its first
\* yield or to the exception that leaves it: the items yielded, the exception
\* that propagates to the caller (None when there is none), the host state at
\* that point, and the saved values when the generator is suspended inside its
\* with blocks.  A ModuleData is passed along; a name is imported inside the
\* with blocks, a module is yielded there, and an exception leaves the blocks
\* and, when `except Exception` catches it, becomes ModuleData(name, status=e).
\* `cached` says that the name is in sys.modules: import_module returns the
\* module without running its top level code again.
import_or_warn(item, h, cached) ==
    IF item.kind # "name"
      THEN [items |-> <<item>>, raised |-> None, host |-> h, saved |-> None]
      ELSE LET name == item.name
               saved == iow_saved(h)
               inside == iow_enter(h)
               module == import_module(name)
               h2 == IF cached THEN inside ELSE ImportEffect(name, inside)
           IN  IF ~IsNone(module) /\ module[1] \in Modules
                 THEN [items |-> <<ItemModule(module[1])>>, raised |-> None,
                       host |-> h2, saved |-> Some(saved)]
                 ELSE LET e == IF IsNone(module) THEN ImportException(name, inside)
                               ELSE <<"TypeError", name \o " is not a module, skipping">>
                          h3 == iow_exit(h2, saved)
                      IN  IF IsExceptionInstance(e)
                            THEN [items |-> <<ItemData(ModuleData(name, None, e, None))>>,
                                  raised |-> None, host |-> h3, saved |-> None]
                            ELSE [items |-> << >>, raised |-> Some(e),
                                  host |-> h3, saved |-> None]

\* reject that returns without a yield when it is given a ModuleData.
reject_drops_module_data(item, s) ==
    IF item.kind = "ModuleData" THEN [out |-> Nothing, seen |-> s]
    ELSE IF item.obj \in s THEN [out |-> Nothing, seen |-> s]
    ELSE IF item.obj \notin Modules THEN [out |-> Nothing, seen |-> s]
    ELSE IF reject_name(ObjName(item.obj)).kind = "nothing"
         THEN [out |-> Nothing, seen |-> s]
         ELSE [out |-> item, seen |-> s \cup {item.obj}]

\* reject(m, seen, done, ignore, file): the item yielded and the seen set.
reject(item, s) ==
    IF item.kind = "ModuleData" THEN [out |-> item, seen |-> s]
    ELSE IF item.obj \in s THEN [out |-> Nothing, seen |-> s]
    ELSE IF item.obj \notin Modules THEN [out |-> Nothing, seen |-> s]
    ELSE IF reject_name(ObjName(item.obj)).kind = "nothing"
         THEN [out |-> Nothing, seen |-> s]
         ELSE [out |-> item, seen |-> s \cup {item.obj}]

(***************************************************************************)
(* analyze_modules.py : the walker                                         *)
(***************************************************************************)
\* comparison of a type object with a str: never equal
TypeEqualsStr(t, s) == FALSE

\* name = name or getattr(item, "__name__", None) or str(item)
datum_name(item, name) ==
    IF name # "" THEN name ELSE IF HasName(item) THEN ObjName(item) ELSE StrOf(item)

\* _mk_datum that records the type of the entity itself as its parent_type.
mk_datum_own_type_as_parent(item, type, parent, name) ==
    LET n == datum_name(item, name)
    IN  HoudiniStaticData(n, type, TypeName(item),
                          IF IsNone(parent) THEN None ELSE Some(parent[1].name),
                          IF IsNone(parent) THEN None ELSE Some(type))

\* _mk_datum without the branch `if name == 'EnumValue'`.
mk_datum_keeps_type(item, type, parent, name) ==
    LET n == datum_name(item, name)
    IN  HoudiniStaticData(n, type, TypeName(item),
                          IF IsNone(parent) THEN None ELSE Some(parent[1].name),
                          IF IsNone(parent) THEN None ELSE Some(parent[1].type))

\* _mk_datum(item, type, parent, name).  EntryType is a StrEnum with upper
\* case values, so the comparisons with 'function' and 'class' are
\* comparisons of strings.
mk_datum(item, type, parent, name) ==
    LET n == datum_name(item, name)
        datatype == TypeName(item)
        t1 == IF type = "function" /\ ~IsNone(parent) /\ parent[1].type = "class"
                THEN "METHOD" ELSE type
        t2 == IF n = "EnumValue" THEN "CLASS"
              ELSE IF TypeEqualsStr(datatype, "EnumValue") THEN "ENUM" ELSE t1
    IN  HoudiniStaticData(n, t2, datatype,
                          IF IsNone(parent) THEN None ELSE Some(parent[1].name),
                          IF IsNone(parent) THEN None ELSE Some(parent[1].type))

\* AnalysisFunctionSignature of a function without overloads: the signature
\* inspect finds, with the datum of the function as its parent.
AnalysisFunctionSignature(func_name, parent_name, parent_type) ==
    [rec |-> "AnalysisFunctionSignature", func_name |-> func_name,
     parent_name |-> parent_name, parent_type |-> parent_type,
     is_overload |-> FALSE, overload_index |-> 0]

(***************************************************************************)
(* analyze_node_types.py : the records of the node type categories         *)
(***************************************************************************)
\* The concatenation of a sequence of sequences.
Concat(ss) ==
    LET all[i \in 0..Len(ss)] == IF i = 0 THEN << >> ELSE all[i - 1] \o ss[i]
    IN  all[Len(ss)]

\* A parameter template of the host: a hou.FloatParmTemplate, which has a
\* defaultValue method.
SizeParm ==
    [name |-> "size", type |-> "FloatParmTemplate", template_type |-> "Float",
     hasDefaultValue |-> TRUE, defaultValue |-> Some("(1.0, 1.0, 1.0)"),
     label |-> "Size", help |-> "", scriptCallback |-> "",
     scriptCallbackLanguage |-> "Python", tags |-> << >>]

\* A node type of the host: the Sop box, which is not deprecated.
BoxType ==
    [name |-> "box", category |-> "Sop", childTypeCategory |-> None,
     description |-> "Box", helpUrl |-> "operator:Sop/box",
     minNumInputs |-> 0, maxNumInputs |-> 1, maxNumOutputs |-> 1,
     isGenerator |-> TRUE, isManager |-> FALSE, deprecated |-> FALSE,
     deprecationInfo |-> [reason |-> None, new_type |-> None, version |-> None],
     parmTemplates |-> << SizeParm >>]

\* hou.nodeTypeCategories() of the hosts of the model: none, and the
\* category Sop with one node type followed by a category without node
\* types whose hasSubNetworkType raises hou.OperationFailed.
HostCategories ==
    { << >>,
      << [name |-> "Sop", label |-> "Geometry", hasSubNetworkType |-> "True",
          nodeTypes |-> << BoxType >>],
         [name |-> "Manager", label |-> "Managers",
          hasSubNetworkType |-> "OperationFailed", nodeTypes |-> << >>] >> }

\* The largest number of references of an object graph that is analysed in
\* a host with node type categories.
MaxCategoryEdges == 1

\* The references of an object graph.
References(g) == UNION { { <<c, m>> : m \in g[c] } : c \in Containers }

\* _parm_template_info(node_type, parm)
parm_template_info(node_type, parm) ==
    << [rec |-> "ParmTemplateInfo",
        node_type_name |-> node_type.name,
        node_type_category |-> node_type.category,
        name |-> parm.name, type |-> parm.type,
        template_type |-> parm.template_type,
        defaultValue |-> IF parm.hasDefaultValue THEN parm.defaultValue ELSE None,
        label |-> parm.label, help |-> parm.help,
        script |-> parm.scriptCallback,
        script_language |-> parm.scriptCallbackLanguage,
        tags |-> parm.tags] >>

\* _node_type_info(name, node_type): the NodeTypeInfo, then the records of
\* its parameter templates.
node_type_info(name, node_type) ==
    << [rec |-> "NodeTypeInfo", name |-> name,
        category |-> node_type.category,
        childCategory |-> node_type.childTypeCategory,
        description |-> node_type.description, helpUrl |-> node_type.helpUrl,
        minNumInputs |-> node_type.minNumInputs,
        maxNumInputs |-> node_type.maxNumInputs,
        maxNumOutputs |-> node_type.maxNumOutputs,
        isGenerator |-> node_type.isGenerator, isManager |-> node_type.isManager,
        isDeprecated |-> node_type.deprecated,
        deprecation_reason |-> node_type.deprecationInfo.reason,
        deprecation_new_type |-> node_type.deprecationInfo.new_type,
        deprecation_version |-> node_type.deprecationInfo.version] >>
      \o Concat([i \in 1..Len(node_type.parmTemplates) |->
                    parm_template_info(node_type, node_type.parmTemplates[i])])

\* _category_info(name, category): the NodeCategoryInfo, with
\* hasSubnetworkType False when the host raises hou.OperationFailed, then the
\* records of its node types.
category_info(name, category) ==
    << [rec |-> "NodeCategoryInfo", name |-> name, label |-> category.label,
        hasSubnetworkType |-> category.hasSubNetworkType = "True"] >>
      \o Concat([i \in 1..Len(category.nodeTypes) |->
                    node_type_info(category.nodeTypes[i].name, category.nodeTypes[i])])

\* analyze_categories() consumed to its end: the records it yields, in order.
analyze_categories(cats) ==
    Concat([i \in 1..Len(cats) |-> category_info(cats[i].name, cats[i])])

\* _init_hou(): the first call adds the key 'hdefereval' to sys.modules, later
\* calls return at once.  The value says whether the first call came before
\* the pass over sys.modules created its iterator or while it iterates.
init_hou == IF hou_init = "no" THEN (IF mip_pc = "sys" THEN "sys" ELSE "path") ELSE hou_init

\* RuntimeError raised by the iterator of sys.modules.values() when the
\* dictionary has changed size since the iterator was created.
DictChangedSize == <<"RuntimeError", "dictionary changed size during iteration">>

\* A generator frame of _load_module or _load_class.
Frame(fn, obj, parent, top, name) ==
    [fn |-> fn, obj |-> obj, parent |-> parent, top |-> top, name |-> name,
     pc |-> "enter", data |-> None, idx |-> 1]

Top == stack[Len(stack)]
Pop == SubSeq(stack, 1, Len(stack) - 1)
ReplaceTop(fr) == [stack EXCEPT ![Len(stack)] = fr]
\* The category records the consumer has received so far.
CategoriesYielded ==
    Cardinality({ p \in 1..Len(received) :
                    received[p].rec \in {"NodeCategoryInfo", "NodeTypeInfo",
                                         "ParmTemplateInfo"} })

\* The generator of analyze_modules runs: analyze_categories is exhausted, no
\* exception has ended the run, and the writer is not suspended at its yield.
Running ==
    /\ pass = 0 /\ error = "none" /\ IsNone(at_yield)
    /\ CategoriesYielded = Len(analyze_categories(categories))
InFrame(fn, pc) == Running /\ stack # << >> /\ Top.fn = fn /\ Top.pc = pc

\* The records emitted by an action: none, or one record given to the writer.
NoEmit == UNCHANGED <<dbvars, received>>
UNCH_harness == UNCHANGED <<envvars, pass, tape, snapshot, stored, scanvars, mockvars, purevars>>
NoImport == UNCHANGED hostvars

\* History: the last call of import_or_warn, if its generator was suspended,
\* has now been consumed to its end, leaving the host state h.
Consumed(log, h) ==
    IF log # << >> /\ IsNone(log[Len(log)].after)
      THEN [log EXCEPT ![Len(log)].after = Some(h)]
      ELSE log

\* An exception leaves analyze_modules: the loop of the consumer ends with
\* it, and the writer is not called.
Propagates(exc) ==
    /\ error' = exc[1]
    /\ UNCHANGED <<item_count, cur_module, houdini_modules, houdini_module_data,
                   foreign_keys, in_txn, uncommitted, committed, pending,
                   crash_points, at_yield, received>>

\* The consumer is done with the item the writer yielded.  One that iterates
\* the generator resumes it, and the statements after the yield run; one that
\* drops the generator closes it at the yield, and they never run.
WriterResume ==
    /\ ~IsNone(at_yield) /\ error = "none"
    /\ IF consumer = "drain"
         THEN WriterBecomes(writer_resume(WriterState, at_yield[1]))
         ELSE UNCHANGED <<item_count, cur_module, houdini_modules,
                          houdini_module_data, foreign_keys, in_txn, uncommitted,
                          committed, pending, crash_points>>
    /\ at_yield' = None
    /\ UNCHANGED <<envvars, walkvars, error, received, pass, tape, snapshot,
                   stored, hostvars, scanvars, mockvars, purevars>>

\* analyze_modules' loop body for one item of `include`: a ModuleData is
\* yielded as it is, a module starts _load_module with a new seen set.
AnalyzeItem(item) ==
    CASE item.kind = "ModuleData" ->
            /\ Write(item.md)
            /\ UNCHANGED <<seen, stack, appended>>
      [] item.kind = "module" ->
            /\ seen' = {}
            /\ appended' = << >>
            /\ stack' = <<Frame("_load_module", item.obj, None, TRUE, "")>>
            /\ NoEmit
      [] item.kind = "raise" ->
            \* an exception leaves modules_in_path and analyze_modules
            /\ Propagates(item.exc)
            /\ UNCHANGED <<seen, stack, appended>>
      [] OTHER ->
            /\ UNCHANGED <<seen, stack, appended>>
            /\ NoEmit

\* modules_in_path, first generator, asked for its next item: the next
\* candidate of the directory scan goes through reject_name, import_or_warn
\* and reject, and what comes out is the next item of analyze_modules'
\* include.
ImportNextCandidate ==
    /\ mip_idx <= Len(candidates)
    /\ LET \* asking for the next item first resumes the import_or_warn
           \* generator that yielded the previous module
           h0 == iow_resume(host, iow)
           \* each `for` of the generator expression runs once per item
           \* yielded by the one before it
           n == reject_name(candidates[mip_idx])
           \* an earlier import of the name has left its module in sys.modules
           cached == \E i \in 1..Len(imports) :
                        /\ imports[i].name = candidates[mip_idx]
                        /\ ~IsNone(import_module(imports[i].name))
           c == IF n.kind = "nothing"
                  THEN [items |-> << >>, raised |-> None, host |-> h0, saved |-> None]
                  ELSE import_or_warn(n, h0, cached)
           r == IF ~IsNone(c.raised)
                  THEN [out |-> ItemRaise(c.raised[1]), seen |-> mip_seen]
                ELSE IF c.items = << >> THEN [out |-> Nothing, seen |-> mip_seen]
                ELSE reject(c.items[1], mip_seen)
           \* a module that reject drops is not yielded to analyze_modules:
           \* import_or_warn is resumed at once
           suspended == r.out.kind = "module"
           h1 == IF suspended THEN c.host ELSE iow_resume(c.host, c.saved)
       IN  /\ mip_seen' = r.seen
           /\ host' = h1
           /\ hou_init' = hou_init
           /\ iow' = IF suspended THEN c.saved ELSE None
           /\ imports' =
                IF n.kind = "name"
                  THEN Append(Consumed(imports, h0),
                              [idx |-> mip_idx, name |-> n.name, at |-> Len(received),
                               before |-> h0, items |-> c.items, raised |-> c.raised,
                               after |-> IF suspended THEN None ELSE Some(h1)])
                  ELSE Consumed(imports, h0)
           /\ AnalyzeItem(r.out)
    /\ mip_idx' = mip_idx + 1
    /\ UNCHANGED <<mip_pc, queue, queued>>
    /\ UNCH_harness

\* A pipeline that does not wait for the walk of the module it yielded: the
\* next candidate is imported while analyze_modules is still in _load_module.
MipNextCandidateEager ==
    /\ Running /\ mip_pc = "path"
    /\ ImportNextCandidate

\* analyze_modules' `for module in include` asks modules_in_path for the next
\* item only when `yield from _load_module(...)` for the previous one has
\* returned.
MipNextCandidate ==
    /\ Running /\ stack = << >> /\ mip_pc = "path"
    /\ ImportNextCandidate

\* modules_in_path: the first generator is exhausted, the pass over
\* sys.modules begins.
MipPathDone ==
    /\ Running /\ stack = << >> /\ mip_pc = "path"
    /\ mip_idx > Len(candidates)
    /\ mip_pc' = "sys" /\ mip_idx' = 1
    /\ host' = iow_resume(host, iow)
    /\ iow' = None
    /\ imports' = Consumed(imports, iow_resume(host, iow))
    /\ hou_init' = hou_init
    /\ UNCHANGED <<mip_seen, seen, queue, queued, appended, stack>>
    /\ NoEmit /\ UNCH_harness

\* modules_in_path, final pass: the iterator of sys.modules.values() is
\* asked for the next module, which goes through reject.  The iterator
\* raises when _init_hou has added a key to sys.modules since the pass began.
MipNextSysModule ==
    /\ Running /\ stack = << >> /\ mip_pc = "sys"
    /\ mip_idx <= Len(SysModules)
    /\ IF hou_init = "sys"
         THEN /\ Propagates(DictChangedSize)
              /\ UNCHANGED <<mip_idx, mip_seen, seen, stack, appended>>
         ELSE /\ LET r == reject(ItemModule(SysModules[mip_idx]), mip_seen)
                 IN  /\ mip_seen' = r.seen
                     /\ AnalyzeItem(r.out)
              /\ mip_idx' = mip_idx + 1
    /\ UNCHANGED <<mip_pc, queue, queued>>
    /\ UNCH_harness /\ NoImport

\* include is exhausted: analyze_modules returns.  The iterator raises here
\* too when sys.modules has changed size.
MipEnd ==
    /\ Running /\ stack = << >> /\ mip_pc = "sys"
    /\ mip_idx > Len(SysModules)
    /\ IF hou_init = "sys"
         THEN Propagates(DictChangedSize) /\ UNCHANGED mip_pc
         ELSE mip_pc' = "end" /\ NoEmit
    /\ UNCHANGED <<mip_idx, mip_seen, seen, queue, queued, appended, stack>>
    /\ UNCH_harness /\ NoImport

\* The tests at the head of _load_module, without the test of the seen set.
load_module_head_no_seen(module, s) ==
    IF ObjName(module) \in done THEN "done"
    ELSE IF ObjName(module) \in ignore THEN "ignore"
    ELSE "open"

\* The tests at the head of _load_module, without the test of the done set.
load_module_head_no_done(module, s) ==
    IF module \in s THEN "seen"
    ELSE IF ObjName(module) \in ignore THEN "ignore"
    ELSE "open"

\* The tests at the head of _load_module: the branch taken.
load_module_head(module, s) ==
    IF module \in s THEN "seen"
    ELSE IF ObjName(module) \in done THEN "done"
    ELSE IF ObjName(module) \in ignore THEN "ignore"
    ELSE "open"

\* _load_module up to its first yield: seen / done return without a record,
\* ignore yields an IGNORE ModuleData and stays suspended at that yield,
\* otherwise the module is opened with ModuleData(name).
LoadModuleEnter ==
    /\ InFrame("_load_module", "enter")
    /\ LET module == Top.obj
           name == ObjName(module)
           head == load_module_head(module, seen)
       IN  /\ seen' = seen \cup {module}
           /\ CASE head = "open" ->
                     /\ Write(ModuleData(name, None, None, None))
                     /\ stack' = ReplaceTop([Top EXCEPT !.pc = "datum"])
                [] head = "ignore" ->
                     /\ Write(ModuleData(name, None, Some("IGNORE"),
                                         Some(IgnoreReason(name))))
                     /\ stack' = ReplaceTop([Top EXCEPT !.pc = "ignored"])
                [] OTHER ->
                     /\ NoEmit
                     /\ stack' = Pop
    /\ UNCHANGED <<mip_pc, mip_idx, mip_seen, queue, queued, appended>>
    /\ UNCH_harness /\ NoImport

\* _load_module resumed after the yield of the IGNORE ModuleData: `return`.
LoadModuleIgnored ==
    /\ InFrame("_load_module", "ignored")
    /\ stack' = Pop
    /\ NoEmit
    /\ UNCHANGED <<mip_pc, mip_idx, mip_seen, seen, queue, queued, appended>>
    /\ UNCH_harness /\ NoImport

\* _load_module: module_data = _mk_datum(module, MODULE, parent, name); yield
\* module_data.  hou = _init_hou() runs when the generator is resumed, with
\* the first step of the loop over the members.
LoadModuleDatum ==
    /\ InFrame("_load_module", "datum")
    /\ LET module_data == mk_datum(Top.obj, "MODULE", Top.parent, ObjName(Top.obj))
       IN  /\ Write(module_data)
           /\ stack' = ReplaceTop([Top EXCEPT !.pc = "members",
                                              !.data = Some(module_data)])
    /\ UNCHANGED <<mip_pc, mip_idx, mip_seen, seen, queue, queued, appended>>
    /\ UNCH_harness /\ NoImport

\* The branch without the test of `queued`: a module member that is not seen
\* is appended.
EnqueueModule_no_queued(parent_data, member) ==
    IF member \notin seen
      THEN /\ queue' = Append(queue, <<parent_data, member>>)
           /\ queued' = queued \cup {member}
           /\ appended' = Append(appended, [module |-> member, at |-> Len(received)])
      ELSE UNCHANGED <<queue, queued, appended>>

\* The branch shared by both member loops: a module member that is neither
\* seen nor queued is appended to the queue with the enclosing datum.
EnqueueModule(parent_data, member) ==
    IF member \notin seen /\ member \notin queued
      THEN /\ queue' = Append(queue, <<parent_data, member>>)
           /\ queued' = queued \cup {member}
           /\ appended' = Append(appended, [module |-> member, at |-> Len(received)])
      ELSE UNCHANGED <<queue, queued, appended>>

\* hou = _init_hou(), the statement of _load_module after `yield
\* module_data`: it runs when the generator is resumed; later steps of the
\* loop find hou initialised.
ResumedAfterDatum == hou_init' = init_hou /\ UNCHANGED <<host, iow, imports>>

\* The position of a member loop after the datum of a member was yielded:
\* at the signatures of the member when _yield_function_signatures has one
\* to yield (no overload is registered, so that is the signature inspect
\* finds), else at the next member.
AfterDatum(member, signatures) ==
    IF signatures /\ HasSignature(member)
      THEN [Top EXCEPT !.pc = "signature"]
      ELSE [Top EXCEPT !.idx = @ + 1]

\* The EntryType _load_module gives a member that is neither a module nor a
\* class: FUNCTION for a function, ENUM for an instance of Enum or of
\* hou.EnumValue, FUNCTION for a method or builtin, OBJECT for anything else.
ModuleMemberType(member) ==
    IF member \in Functions THEN "FUNCTION"
    ELSE IF member \in EnumValues \cup EnumMembers THEN "ENUM"
    ELSE IF member \in BoundMethods \cup Builtins THEN "FUNCTION"
    ELSE "OBJECT"

\* _load_module, a member that is neither a module nor a class: its datum is
\* yielded, and the signatures of a function, method or builtin follow.
LoadModuleLeaf(member, module_data) ==
    LET type == ModuleMemberType(member)
    IN  /\ Write(mk_datum(member, type, Some(module_data), ObjName(member)))
        /\ stack' = ReplaceTop(AfterDatum(member, type = "FUNCTION"))

\* _load_module with a loop that recurses into a member module at once
\* instead of appending it to the queue.
LoadModuleMemberDepthFirst ==
    /\ InFrame("_load_module", "members")
    /\ Top.idx <= Len(get_members_safe(Top.obj))
    /\ LET member == get_members_safe(Top.obj)[Top.idx]
           module_data == Top.data[1]
           next == [Top EXCEPT !.idx = @ + 1]
       IN  CASE member \in Modules ->
                  /\ stack' = Append(ReplaceTop(next),
                                     Frame("_load_module", member, Some(module_data),
                                           FALSE, ""))
                  /\ UNCHANGED <<queue, queued, appended>>
                  /\ NoEmit
             [] member \in Classes ->
                  /\ stack' = Append(ReplaceTop(next),
                                     Frame("_load_class", member, Some(module_data),
                                           FALSE, ""))
                  /\ UNCHANGED <<queue, queued, appended>>
                  /\ NoEmit
             [] OTHER ->
                  /\ LoadModuleLeaf(member, module_data)
                  /\ UNCHANGED <<queue, queued, appended>>
    /\ UNCHANGED <<mip_pc, mip_idx, mip_seen, seen>>
    /\ UNCH_harness /\ ResumedAfterDatum

\* _load_module: one iteration of the loop over the members.
LoadModuleMember ==
    /\ InFrame("_load_module", "members")
    /\ Top.idx <= Len(get_members_safe(Top.obj))
    /\ LET member == get_members_safe(Top.obj)[Top.idx]
           module_data == Top.data[1]
           next == [Top EXCEPT !.idx = @ + 1]
       IN  CASE member \in Modules ->
                  /\ EnqueueModule(module_data, member)
                  /\ stack' = ReplaceTop(next)
                  /\ NoEmit
             [] member \in Classes ->
                  /\ stack' = Append(ReplaceTop(next),
                                     Frame("_load_class", member, Some(module_data),
                                           FALSE, ""))
                  /\ UNCHANGED <<queue, queued, appended>>
                  /\ NoEmit
             [] OTHER ->
                  /\ LoadModuleLeaf(member, module_data)
                  /\ UNCHANGED <<queue, queued, appended>>
    /\ UNCHANGED <<mip_pc, mip_idx, mip_seen, seen>>
    /\ UNCH_harness /\ ResumedAfterDatum

\* _load_module whose top call returns after its members, without the loop
\* that drains the queue.
LoadModuleMembersDoneNoDrain ==
    /\ InFrame("_load_module", "members")
    /\ Top.idx > Len(get_members_safe(Top.obj))
    /\ IF IsNone(get_members(Top.obj).raised)
         THEN stack' = Pop /\ NoEmit
         ELSE UNCHANGED stack /\ Propagates(get_members(Top.obj).raised[1])
    /\ UNCHANGED <<mip_pc, mip_idx, mip_seen, seen, queue, queued, appended>>
    /\ UNCH_harness /\ ResumedAfterDatum

\* _load_module: the loop over the members is finished; the top call goes on
\* to drain the queue, a nested call returns.
LoadModuleMembersDone ==
    /\ InFrame("_load_module", "members")
    /\ Top.idx > Len(get_members_safe(Top.obj))
    /\ IF IsNone(get_members(Top.obj).raised)
         THEN /\ stack' = IF Top.top THEN ReplaceTop([Top EXCEPT !.pc = "drain"]) ELSE Pop
              /\ NoEmit
         ELSE \* the exception of the member loop leaves every generator
              UNCHANGED stack /\ Propagates(get_members(Top.obj).raised[1])
    /\ UNCHANGED <<mip_pc, mip_idx, mip_seen, seen, queue, queued, appended>>
    /\ UNCH_harness /\ ResumedAfterDatum

\* The drain loop with queue.pop() in place of queue.popleft().
LoadModuleDrainLifo ==
    /\ InFrame("_load_module", "drain")
    /\ IF queue # << >>
         THEN /\ queue' = SubSeq(queue, 1, Len(queue) - 1)
              /\ stack' = Append(stack, Frame("_load_module", queue[Len(queue)][2],
                                              Some(queue[Len(queue)][1]), FALSE, ""))
         ELSE /\ stack' = Pop
              /\ UNCHANGED queue
    /\ UNCHANGED <<mip_pc, mip_idx, mip_seen, seen, queued, appended>>
    /\ NoEmit /\ UNCH_harness /\ NoImport

\* _load_module, top call: while len(queue) > 0: popleft and load the module
\* with top=False; the call returns when the queue is empty.
LoadModuleDrain ==
    /\ InFrame("_load_module", "drain")
    /\ IF queue # << >>
         THEN /\ queue' = Tail(queue)
              /\ stack' = Append(stack, Frame("_load_module", Head(queue)[2],
                                              Some(Head(queue)[1]), FALSE, ""))
         ELSE /\ stack' = Pop
              /\ UNCHANGED queue
    /\ UNCHANGED <<mip_pc, mip_idx, mip_seen, seen, queued, appended>>
    /\ NoEmit /\ UNCH_harness /\ NoImport

\* The EntryType _load_class gives the class itself.
ClassType(cls) ==
    IF IsEnumSubclass(cls) THEN "ENUM"
    ELSE IF ishouenumtype(cls) THEN "ENUMTYPE" ELSE "CLASS"

\* _load_class up to its first yield.
LoadClassEnter ==
    /\ InFrame("_load_class", "enter")
    /\ LET cls == Top.obj
           name == IF Top.name # "" THEN Top.name ELSE ObjName(cls)
           class_data == mk_datum(cls, ClassType(cls), Top.parent, "")
       IN  IF cls \in seen
             THEN /\ stack' = Pop /\ UNCHANGED seen /\ NoEmit
             ELSE /\ seen' = seen \cup {cls}
                  /\ IF StartsWithUnderscore(name)
                       THEN stack' = Pop /\ NoEmit
                       ELSE /\ Write(class_data)
                            /\ stack' = ReplaceTop([Top EXCEPT !.pc = "members",
                                                   !.name = name,
                                                   !.data = Some(class_data)])
    /\ hou_init' = IF Top.obj \in seen THEN hou_init ELSE init_hou
    /\ UNCHANGED <<mip_pc, mip_idx, mip_seen, queue, queued, appended>>
    /\ UNCH_harness /\ UNCHANGED <<host, iow, imports>>

\* The EntryType the match statement of _load_class gives a member that is a
\* function: METHOD when the parent of the class is a CLASS, else FUNCTION.
MemberType(parent) == IF parent[1].type = "CLASS" THEN "METHOD" ELSE "FUNCTION"

\* The match statement of _load_class: METHOD for a bound method, MemberType
\* for a function or builtin, ATTRIBUTE for a data descriptor (a property or
\* an enum.property), OBJECT for any other value.
ClassMemberType(member, parent) ==
    IF member \in BoundMethods THEN "METHOD"
    ELSE IF member \in Functions \cup Builtins THEN MemberType(parent)
    ELSE IF member \in Properties \cup EnumProperties THEN "ATTRIBUTE"
    ELSE "OBJECT"

\* _load_class: one iteration of the loop over the members.
LoadClassMember ==
    /\ InFrame("_load_class", "members")
    /\ Top.idx <= Len(get_members_safe(Top.obj))
    /\ LET member == get_members_safe(Top.obj)[Top.idx]
           class_data == Top.data[1]
           next == [Top EXCEPT !.idx = @ + 1]
       IN  CASE member \in Modules ->
                  /\ EnqueueModule(class_data, member)
                  /\ stack' = ReplaceTop(next)
                  /\ NoEmit
             [] member \in Classes ->
                  /\ stack' = Append(ReplaceTop(next),
                                     Frame("_load_class", member, Some(class_data),
                                           FALSE, Top.name \o "." \o ObjName(member)))
                  /\ UNCHANGED <<queue, queued, appended>>
                  /\ NoEmit
             [] member \in Properties ->
                  \* elif isinstance(member, property)
                  /\ Write(mk_datum(member, "ATTRIBUTE", Some(class_data),
                                    ObjName(member)))
                  /\ stack' = ReplaceTop(next)
                  /\ UNCHANGED <<queue, queued, appended>>
             [] OTHER ->
                  \* the datum has the type of the match statement; the
                  \* signatures follow when that is METHOD or FUNCTION
                  LET type == ClassMemberType(member, Top.parent)
                  IN  /\ Write(mk_datum(member, type, Some(class_data),
                                        ObjName(member)))
                      /\ stack' = ReplaceTop(AfterDatum(member,
                                                type \in {"METHOD", "FUNCTION"}))
                      /\ UNCHANGED <<queue, queued, appended>>
    /\ UNCHANGED <<mip_pc, mip_idx, mip_seen, seen>>
    /\ UNCH_harness /\ NoImport

\* yield from _yield_function_signatures(...) after the datum of a function,
\* method or builtin, in _load_module and in _load_class: no overload is
\* registered for it, and the one signature inspect.signature finds is
\* yielded with the datum of the member as its parent.
YieldFunctionSignatures ==
    /\ Running /\ stack # << >> /\ Top.pc = "signature"
    /\ LET member == get_members_safe(Top.obj)[Top.idx]
           func_data == mk_datum(member,
                                 IF Top.fn = "_load_module"
                                   THEN ModuleMemberType(member)
                                   ELSE ClassMemberType(member, Top.parent),
                                 Top.data, ObjName(member))
       IN  Write(AnalysisFunctionSignature(ObjName(member), func_data.name,
                                          func_data.type))
    /\ stack' = ReplaceTop([Top EXCEPT !.pc = "members", !.idx = @ + 1])
    /\ UNCHANGED <<mip_pc, mip_idx, mip_seen, seen, queue, queued, appended>>
    /\ UNCH_harness /\ NoImport

\* _load_class: the loop over the members is finished, the generator returns.
LoadClassDone ==
    /\ InFrame("_load_class", "members")
    /\ Top.idx > Len(get_members_safe(Top.obj))
    /\ IF IsNone(get_members(Top.obj).raised)
         THEN stack' = Pop /\ NoEmit
         ELSE UNCHANGED stack /\ Propagates(get_members(Top.obj).raised[1])
    /\ UNCHANGED <<mip_pc, mip_idx, mip_seen, seen, queue, queued, appended>>
    /\ UNCH_harness /\ NoImport

\* A file system without directories.
NoFiles == << >>

(***************************************************************************)
(* analyze_modules.py : candidates_in_dir.  A path is the sequence of its  *)
(* components; a file system maps every directory to its entries in the    *)
(* order iterdir returns them.                                             *)
(***************************************************************************)
File(stem, suffix) == [name |-> stem \o suffix, stem |-> stem, suffix |-> suffix, dir |-> FALSE]
\* pathlib splits the name of a directory like the name of a file.
Dir(stem, suffix) == [name |-> stem \o suffix, stem |-> stem, suffix |-> suffix, dir |-> TRUE]

\* common_paths.ZABOB_ROOT
ZABOB_ROOT == <<"top", "root">>

\* The directories of the model and, for each, the listings it may have:
\* "top" holds ZABOB_ROOT and "lib"; ZABOB_ROOT holds the package "zabob" and
\* may hold a script and an __init__.py of its own; "lib" holds a module, the
\* package "P", the namespace directory "N" with the package "Q" or "Q.x"
\* and the plain directory "R", and a directory named "test".
Listings ==
    [d \in { <<"top">>, ZABOB_ROOT, <<"top", "root", "zabob">>, <<"top", "lib">>,
             <<"top", "lib", "P">>, <<"top", "lib", "N">>, <<"top", "lib", "N", "Q">>,
             <<"top", "lib", "N", "Q.x">>, <<"top", "lib", "N", "R">>,
             <<"top", "lib", "test">> } |->
        CASE d = <<"top">> ->
               << <<Dir("root", ""), Dir("lib", "")>>, <<Dir("lib", ""), File("m", ".py"), Dir("root", "")>> >>
          [] d = ZABOB_ROOT ->
               << <<File("tool", ".py"), Dir("zabob", "")>>,
                  <<Dir("zabob", ""), File("__init__", ".py"), File("tool", ".py")>>,
                  <<Dir("zabob", "")>> >>
          [] d = <<"top", "root", "zabob">> ->
               << <<File("__init__", ".py"), File("common", ".py")>>,
                  <<File("common", ".py"), File("__init__", ".py")>> >>
          [] d = <<"top", "lib">> ->
               << <<File("m", ".py"), Dir("P", ""), Dir("N", ""), Dir("test", "")>>,
                  <<Dir("test", ""), Dir("N", ""), File("m", ".txt"), Dir("P", "")>> >>
          [] d = <<"top", "lib", "P">> ->
               << <<File("s", ".py"), File("__init__", ".py"), File("__main__", ".py"),
                    File("t", ".py")>>,
                  <<File("__init__", ".py")>> >>
          [] d = <<"top", "lib", "N">> ->
               << <<Dir("Q", ""), Dir("R", "")>>, <<Dir("R", ""), Dir("Q", ".x")>> >>
          [] d \in {<<"top", "lib", "N", "Q">>, <<"top", "lib", "N", "Q.x">>} ->
               << <<File("__init__", ".py"), File("t", ".py")>> >>
          [] d = <<"top", "lib", "N", "R">> -> << <<File("t", ".py")>> >>
          [] OTHER -> << <<File("__init__", ".py"), File("s", ".py")>> >>]

\* The file systems of the model: one listing for every directory.
FileSystems ==
    { [d \in DOMAIN Listings |->
          Listings[d][IF d \in DOMAIN c /\ c[d] <= Len(Listings[d]) THEN c[d] ELSE 1]] :
        c \in [{ <<"top">>, ZABOB_ROOT, <<"top", "root", "zabob">>, <<"top", "lib">>,
                 <<"top", "lib", "P">>, <<"top", "lib", "N">> } -> {1, 2, 3}] }

\* The search paths of the model: a directory that contains ZABOB_ROOT,
\* ZABOB_ROOT, a directory inside it, a directory elsewhere, and a path that
\* is not a directory.
SearchPaths == { <<"top">>, ZABOB_ROOT, <<"top", "root", "zabob">>, <<"top", "lib">>,
                 <<"top", "nowhere">> }

\* path.is_dir()
is_dir(path) == path \in DOMAIN fs

\* root in path.parents
InParents(root, path) ==
    Len(root) < Len(path) /\ SubSeq(path, 1, Len(root)) = root

\* (d / '__init__.py').exists()
HasInit(d) == \E i \in 1..Len(fs[d]) : fs[d][i].name = "__init__.py"

\* The generator over the files of a package directory d: every file with
\* suffix .py except __init__.py and __main__.py, named prefix.stem.
Submodules(prefix, d) ==
    LET sub[i \in 0..Len(fs[d])] ==
          IF i = 0 THEN << >>
          ELSE LET e == fs[d][i]
               IN  IF /\ ~e.dir /\ e.suffix = ".py"
                      /\ e.name # "__init__.py" /\ e.name # "__main__.py"
                     THEN Append(sub[i - 1], [name |-> prefix \o "." \o e.stem,
                                              file |-> Append(d, e.name)])
                     ELSE sub[i - 1]
    IN  sub[Len(fs[d])]

\* A package branch that yields the package before its submodules.
PackageParentFirst(name, d) == <<[name |-> name, file |-> d]>> \o Submodules(name, d)

\* The branch of a package directory d: its submodules, and finally the
\* parent.
Package(name, d) == Submodules(name, d) \o <<[name |-> name, file |-> d]>>

\* The branch of a directory d without __init__.py: for every package
\* directory in it the submodules of the package, then the packages.
Namespace(name, d) ==
    LET IsPkg(e) == e.dir /\ HasInit(Append(d, e.name))
        subs[i \in 0..Len(fs[d])] ==
          IF i = 0 THEN << >>
          ELSE IF IsPkg(fs[d][i])
                 THEN subs[i - 1] \o Submodules(name \o "." \o fs[d][i].stem,
                                                Append(d, fs[d][i].name))
                 ELSE subs[i - 1]
        pkgs[i \in 0..Len(fs[d])] ==
          IF i = 0 THEN << >>
          ELSE IF IsPkg(fs[d][i])
                 THEN Append(pkgs[i - 1], [name |-> name \o "." \o fs[d][i].stem,
                                           file |-> Append(d, fs[d][i].name)])
                 ELSE pkgs[i - 1]
    IN  subs[Len(fs[d])] \o pkgs[Len(fs[d])]

\* The body of the loop of candidates_in_dir for one item of path.iterdir().
ItemCandidates(path, item) ==
    LET child == Append(path, item.name)
        module == IF ~item.dir /\ item.suffix = ".py"
                    THEN <<[name |-> item.stem, file |-> child]>> ELSE << >>
    IN  IF item.name \in {"test", "site-packages", "site-packages-forced"} THEN module
        ELSE IF item.dir /\ HasInit(child) THEN module \o Package(item.name, child)
        ELSE IF item.dir THEN module \o Namespace(item.name, child)
        ELSE module

\* candidates_in_dir(path): the (name, file) pairs yielded, in order.
candidates_in_dir(path) ==
    IF ~is_dir(path) THEN << >>
    ELSE IF InParents(ZABOB_ROOT, path) THEN << >>
    ELSE LET all[i \in 0..Len(fs[path])] ==
               IF i = 0 THEN << >>
               ELSE all[i - 1] \o ItemCandidates(path, fs[path][i])
         IN  all[Len(fs[path])]

\* The lists of at most MaxPaths search paths.
PathLists == UNION { [1..n -> SearchPaths] : n \in 1..MaxPaths }

\* modules_in_path is given a list of search paths over a file system.
DInit ==
    /\ fs \in FileSystems
    /\ paths \in PathLists
    /\ path_idx = 1 /\ found = << >>
    /\ members = [c \in Containers |-> {}]
    /\ candidates = << >> /\ done = {} /\ ignore = {}
    /\ mip_pc = "path" /\ mip_idx = 1 /\ mip_seen = {}
    /\ seen = {} /\ queue = << >> /\ queued = {} /\ stack = << >>
    /\ appended = << >>
    /\ item_count = 0 /\ cur_module = None
    /\ houdini_modules = {} /\ houdini_module_data = << >>
    /\ foreign_keys = TRUE /\ in_txn = FALSE /\ uncommitted = 0
    /\ committed = Tables({}, << >>) /\ pending = {} /\ crash_points = << >>
    /\ at_yield = None /\ consumer = "drain" /\ db_path = FALSE /\ hou_init = "no"
    /\ categories = << >>
    /\ error = "none"
    /\ received = << >> /\ pass = 4 /\ tape = << >> /\ snapshot = << >>
    /\ stored = None
    /\ NoMock /\ NoInput
    /\ host = Host(None) /\ iow = None /\ imports = << >>

\* The number of candidates already taken from the generator
\* candidates_in_dir(p) of the search path under scan.
Taken == Cardinality({ i \in 1..Len(found) : found[i].scan = path_idx })

\* modules_in_path, `for p in paths for candidate, file in candidates_in_dir(p)
\* for name in reject_name(...)`: the generators are lazy, and one step takes
\* the next candidate of the search path under scan; it is recorded with the
\* scan it comes from and with whether reject_name lets it through.
ScanPath ==
    /\ pass = 4 /\ path_idx <= Len(paths)
    /\ LET cs == candidates_in_dir(paths[path_idx])
       IN  /\ Taken < Len(cs)
           /\ found' = Append(found,
                          [name |-> cs[Taken + 1].name, file |-> cs[Taken + 1].file,
                           scan |-> path_idx,
                           accepted |-> reject_name(cs[Taken + 1].name).kind # "nothing"])
    /\ UNCHANGED <<fs, paths, path_idx>>
    /\ UNCHANGED <<envvars, walkvars, dbvars, received, pass, tape, snapshot,
                   stored, hostvars, mockvars, purevars>>

\* candidates_in_dir(p) is exhausted: `for p in paths` goes on to the next
\* search path.
ScanPathEnds ==
    /\ pass = 4 /\ path_idx <= Len(paths)
    /\ Taken = Len(candidates_in_dir(paths[path_idx]))
    /\ path_idx' = path_idx + 1
    /\ UNCHANGED <<fs, paths, found>>
    /\ UNCHANGED <<envvars, walkvars, dbvars, received, pass, tape, snapshot,
                   stored, hostvars, mockvars, purevars>>

DNext == ScanPath \/ ScanPathEnds

DSpec == DInit /\ [][DNext]_vars

\* The object graphs of the model: at most MaxEdges of the allowed references.
Graphs ==
    { [c \in Containers |-> { e[2] : e \in { x \in E : x[1] = c } }] :
        E \in { X \in SUBSET AllowedEdges : Cardinality(X) <= MaxEdges } }

\* A run of do_analysis into a new database: the records of
\* analyze_categories(), then those of
\* analyze_modules(include=modules_in_path(sys.path, done, ignore)).
Init ==
    /\ members \in Graphs
    /\ candidates \in CandidateLists
    /\ \E sc \in Scenarios : done = sc[1] /\ ignore = sc[2] /\ host = Host(sc[3])
    /\ iow = None /\ imports = << >>
    /\ fs = NoFiles /\ paths = << >> /\ path_idx = 1 /\ found = << >>
    /\ mip_pc = "path" /\ mip_idx = 1 /\ mip_seen = {}
    /\ seen = {} /\ queue = << >> /\ queued = {} /\ stack = << >>
    /\ appended = << >>
    /\ item_count = 0 /\ cur_module = None
    /\ houdini_modules = {} /\ houdini_module_data = << >>
    /\ foreign_keys = TRUE /\ in_txn = FALSE /\ uncommitted = 0
    /\ committed = Tables({}, << >>) /\ pending = {} /\ crash_points = << >>
    /\ at_yield = None /\ consumer = "drain" /\ db_path = FALSE /\ hou_init = "no"
    /\ categories \in (IF Cardinality(References(members)) <= MaxCategoryEdges
                          THEN HostCategories ELSE { << >> })
    /\ error = "none"
    /\ received = << >> /\ pass = 0 /\ tape = << >> /\ snapshot = << >>
    /\ stored = None
    /\ NoMock /\ NoInput

\* do_analysis, `yield from analyze_categories()`: the next record of the
\* node type categories is yielded and given to the writer, which has no
\* case for it.
AnalyzeCategories ==
    /\ pass = 0 /\ error = "none" /\ IsNone(at_yield)
    /\ CategoriesYielded < Len(analyze_categories(categories))
    /\ Write(analyze_categories(categories)[CategoriesYielded + 1])
    /\ UNCHANGED walkvars
    /\ UNCH_harness /\ NoImport

Next ==
    \/ MipNextCandidate
    \/ MipPathDone
    \/ MipNextSysModule
    \/ MipEnd
    \/ LoadModuleEnter
    \/ LoadModuleIgnored
    \/ LoadModuleDatum
    \/ LoadModuleMember
    \/ LoadModuleMembersDone
    \/ LoadModuleDrain
    \/ LoadClassEnter
    \/ LoadClassMember
    \/ LoadClassDone
    \/ YieldFunctionSignatures
    \/ WriterResume

\* do_analysis: the node type categories, then the modules.
DoAnalysis == AnalyzeCategories \/ Next

Spec == Init /\ [][DoAnalysis]_vars

(***************************************************************************)
(* The pipeline over object graphs with cycles, run to its end             *)
(***************************************************************************)
\* The references of these graphs: a cycle of three modules, a cycle of two
\* classes, a class and a function in a module.
CycleEdges ==
    { <<"ma", "mb">>, <<"mb", "mc">>, <<"mc", "ma">>,
      <<"mb", "k1">>, <<"k1", "k2">>, <<"k2", "k1">>, <<"k1", "f">> }

CycleGraphs ==
    { [c \in Containers |-> { e[2] : e \in { x \in E : x[1] = c } }] :
        E \in { X \in SUBSET CycleEdges : Cardinality(X) <= MaxEdges } }

WalkInit ==
    /\ members \in CycleGraphs
    /\ candidates = <<"b", "a">>
    /\ done = {} /\ host = Host(None)
    \* the graph without references is also walked with module c ignored
    /\ ignore \in (IF References(members) = {} THEN { {}, {"c"} } ELSE { {} })
    /\ iow = None /\ imports = << >>
    /\ fs = NoFiles /\ paths = << >> /\ path_idx = 1 /\ found = << >>
    /\ mip_pc = "path" /\ mip_idx = 1 /\ mip_seen = {}
    /\ seen = {} /\ queue = << >> /\ queued = {} /\ stack = << >>
    /\ appended = << >>
    /\ item_count = 0 /\ cur_module = None
    /\ houdini_modules = {} /\ houdini_module_data = << >>
    /\ foreign_keys = TRUE /\ in_txn = FALSE /\ uncommitted = 0
    /\ committed = Tables({}, << >>) /\ pending = {} /\ crash_points = << >>
    /\ at_yield = None /\ consumer = "drain" /\ db_path = FALSE /\ hou_init = "no"
    /\ categories = << >>
    /\ error = "none"
    /\ received = << >> /\ pass = 0 /\ tape = << >> /\ snapshot = << >>
    /\ stored = None
    /\ NoMock /\ NoInput

\* The pipeline is one sequential program: the for loop that consumes
\* analyze_modules keeps asking for the next record as long as there is one.
WalkSpec == WalkInit /\ [][Next]_vars /\ WF_vars(Next)

(***************************************************************************)
(* The pipeline over object graphs in which modules hold several modules   *)
(***************************************************************************)
\* The references of these graphs: a root with two nested modules, modules
\* nested in those, a module held by a class, a function, and cycles.
QEdges ==
    { <<"ma", "mb">>, <<"ma", "mc">>, <<"mb", "md">>, <<"mc", "md">>,
      <<"md", "ma">>, <<"mb", "mc">>, <<"ma", "k1">>, <<"k1", "md">>,
      <<"ma", "f">> }

QGraphs ==
    { [c \in Containers |-> { e[2] : e \in { x \in E : x[1] = c } }] :
        E \in { X \in SUBSET QEdges : Cardinality(X) <= MaxEdges } }

QInit ==
    /\ members \in QGraphs
    /\ candidates \in CandidateLists
    /\ \E sc \in Scenarios : done = sc[1] /\ ignore = sc[2] /\ host = Host(sc[3])
    /\ iow = None /\ imports = << >>
    /\ fs = NoFiles /\ paths = << >> /\ path_idx = 1 /\ found = << >>
    /\ mip_pc = "path" /\ mip_idx = 1 /\ mip_seen = {}
    /\ seen = {} /\ queue = << >> /\ queued = {} /\ stack = << >>
    /\ appended = << >>
    /\ item_count = 0 /\ cur_module = None
    /\ houdini_modules = {} /\ houdini_module_data = << >>
    /\ foreign_keys = TRUE /\ in_txn = FALSE /\ uncommitted = 0
    /\ committed = Tables({}, << >>) /\ pending = {} /\ crash_points = << >>
    /\ at_yield = None /\ consumer = "drain" /\ db_path = FALSE /\ hou_init = "no"
    /\ categories = << >>
    /\ error = "none"
    /\ received = << >> /\ pass = 0 /\ tape = << >> /\ snapshot = << >>
    /\ stored = None
    /\ NoMock /\ NoInput

QSpec == QInit /\ [][Next]_vars

(***************************************************************************)
(* The pipeline over object graphs in which two classes of a module hold a *)
(* member of the same name, and in which objects cannot be reflected       *)
(***************************************************************************)
\* The references every one of these graphs has: module "a" holds the
\* classes K and L.
GBase == { <<"ma", "k1">>, <<"ma", "k2">> }

\* The references a graph may have besides: the function f as a member of K,
\* of L, of the module and of the objects that cannot be reflected, modules
\* and classes found before and after those objects, and a value of an
\* enumeration of the host as a member of the module and of K.
GEdges ==
    { <<"k1", "f">>, <<"k2", "f">>, <<"ma", "f">>, <<"ma", "mb">>,
      <<"ma", "kx">>, <<"kx", "f">>, <<"kx", "mb">>, <<"mb", "kx">>,
      <<"ma", "mx">>, <<"mx", "f">>, <<"mx", "mc">>,
      <<"ma", "e1">>, <<"k1", "e1">> }

\* The members that are neither modules, classes nor functions: an int, a
\* builtin and a bound method as members of the module and of K, a property
\* of K, and the Enum class Col with its member RED, which the module holds
\* as well.  A graph has all of them or none.
GLeaves ==
    { <<"ma", "n1">>, <<"ma", "blt">>, <<"ma", "bm">>,
      <<"k1", "n1">>, <<"k1", "blt">>, <<"k1", "bm">>, <<"k1", "pr">>,
      <<"ma", "k3">>, <<"k3", "r1">>, <<"ma", "r1">> }

GGraphs ==
    { [c \in Containers |-> { e[2] : e \in { x \in E \cup GBase \cup L : x[1] = c } }] :
        E \in { X \in SUBSET GEdges : Cardinality(X) <= MaxEdges },
        L \in { {}, GLeaves } }

GInit ==
    /\ members \in GGraphs
    /\ candidates \in CandidateLists
    /\ done = {} /\ host = Host(None)
    \* the graph with no reference besides GBase is also walked with module
    \* b ignored
    /\ ignore \in (IF References(members) = GBase THEN { {}, {"b"} } ELSE { {} })
    /\ iow = None /\ imports = << >>
    /\ fs = NoFiles /\ paths = << >> /\ path_idx = 1 /\ found = << >>
    /\ mip_pc = "path" /\ mip_idx = 1 /\ mip_seen = {}
    /\ seen = {} /\ queue = << >> /\ queued = {} /\ stack = << >>
    /\ appended = << >>
    /\ item_count = 0 /\ cur_module = None
    /\ houdini_modules = {} /\ houdini_module_data = << >>
    /\ foreign_keys = TRUE /\ in_txn = FALSE /\ uncommitted = 0
    /\ committed = Tables({}, << >>) /\ pending = {} /\ crash_points = << >>
    /\ at_yield = None /\ consumer = "drain" /\ db_path = FALSE /\ hou_init = "no"
    /\ categories = << >>
    /\ error = "none"
    /\ received = << >> /\ pass = 0 /\ tape = << >> /\ snapshot = << >>
    /\ stored = None
    /\ NoMock /\ NoInput

GSpec == GInit /\ [][Next]_vars

(***************************************************************************)
(* The writer on its own: any stream of records is written, the writer     *)
(* context is left, and the same stream is written again into the same     *)
(* database through a new writer context.                                  *)
(***************************************************************************)
\* The records a stream is made of: modules "a" and "b" opened, failed or
\* ignored, the root entity of "a", and a class "K" found in "a" or in "b".
WInputs ==
    { ModuleData("a", None, None, None),
      ModuleData("a", None, <<"RuntimeError", "boom">>, None),
      ModuleData("b", None, None, None),
      ModuleData("b", None, Some("IGNORE"), Some(IgnoreReason("b"))),
      HoudiniStaticData("a", "MODULE", "module", None, None),
      HoudiniStaticData("K", "CLASS", "type", Some("a"), Some("MODULE")),
      HoudiniStaticData("K", "CLASS", "type", Some("b"), Some("MODULE")) }

WInit ==
    /\ members = [c \in Containers |-> {}]
    /\ candidates = << >> /\ done = {} /\ ignore = {}
    /\ mip_pc = "end" /\ mip_idx = 1 /\ mip_seen = {}
    /\ seen = {} /\ queue = << >> /\ queued = {} /\ stack = << >>
    /\ appended = << >>
    /\ item_count = 0 /\ cur_module = None
    /\ houdini_modules = {} /\ houdini_module_data = << >>
    /\ foreign_keys = TRUE /\ in_txn = FALSE /\ uncommitted = 0
    /\ committed = Tables({}, << >>) /\ pending = {} /\ crash_points = << >>
    /\ at_yield = None /\ consumer \in {"drain", "next", "call"}
    /\ db_path \in BOOLEAN /\ hou_init = "no"
    /\ categories = << >>
    /\ error = "none"
    /\ received = << >> /\ pass = 1 /\ tape = << >> /\ snapshot = << >>
    /\ stored = None
    /\ NoMock /\ NoInput
    /\ host = Host(None) /\ iow = None /\ imports = << >>
    /\ fs = NoFiles /\ paths = << >> /\ path_idx = 1 /\ found = << >>

\* for item in stream: writer(item)
WFeed ==
    /\ pass = 1 /\ error = "none" /\ IsNone(at_yield)
    /\ Len(received) < MaxStream
    /\ \E datum \in WInputs : Write(datum)
    /\ UNCHANGED <<envvars, walkvars, pass, tape, snapshot, stored,
                   hostvars, scanvars, mockvars, purevars>>

\* Leaving the with block of analysis_db_writer.  With a connection of the
\* caller nothing is committed or closed.  With a path the block of
\* `with sqlite3.connect(db_path) as conn` is left, and the exit of the
\* connection context commits.
writer_exit(w) ==
    IF db_path
      THEN [w EXCEPT !.in_txn = FALSE, !.uncommitted = 0, !.pending = {},
                     !.committed = Tables(w.houdini_modules,
                                          w.houdini_module_data)]
      ELSE w

\* The stream is exhausted and the with block of analysis_db_writer is left.
\* A second writer is then entered on the same database: on the same
\* connection, or by the same path, where a new connection starts outside a
\* transaction.
WEndPass ==
    /\ pass = 1 /\ error = "none" /\ IsNone(at_yield)
    /\ LET x == writer_exit(WriterState)
           w == WriterEntry(x.houdini_modules, x.houdini_module_data,
                            x.foreign_keys, x.in_txn)
       IN  /\ item_count' = w.item_count
           /\ cur_module' = w.cur_module
           /\ foreign_keys' = w.foreign_keys
           /\ in_txn' = w.in_txn
           /\ uncommitted' = w.uncommitted
           /\ committed' = w.committed
           /\ pending' = w.pending
           /\ crash_points' = w.crash_points
    /\ at_yield' = None
    /\ tape' = received
    /\ snapshot' = houdini_module_data
    /\ received' = << >>
    /\ pass' = 2
    /\ UNCHANGED <<envvars, walkvars, houdini_modules, houdini_module_data,
                   error, stored, hostvars, scanvars, mockvars, purevars>>

\* The second pass writes the records of the first, in the same order.
WReplay ==
    /\ pass = 2 /\ error = "none" /\ IsNone(at_yield)
    /\ Len(received) < Len(tape)
    /\ Write(tape[Len(received) + 1])
    /\ UNCHANGED <<envvars, walkvars, pass, tape, snapshot, stored,
                   hostvars, scanvars, mockvars, purevars>>

\* The second pass has written the whole stream, and the with block of the
\* second writer is left.
WFinish ==
    /\ pass = 2 /\ error = "none" /\ IsNone(at_yield)
    /\ Len(received) = Len(tape)
    /\ pass' = 3
    /\ WriterBecomes(writer_exit(WriterState))
    /\ UNCHANGED <<envvars, walkvars, at_yield, error, received, tape, snapshot,
                   stored, hostvars, scanvars, mockvars, purevars>>

WNext == WFeed \/ WriterResume \/ WEndPass \/ WReplay \/ WFinish

WSpec == WInit /\ [][WNext]_vars

(***************************************************************************)
(* analysis_db.py : get_stored_modules.  One generator is created over a   *)
(* database a writer has left, and its consumer asks for its items one by  *)
(* one; between two items the consumer may write to the table.             *)
(***************************************************************************)
\* The names of the modules in the table.
StoredNames == {"a", "b", "c"}

\* The number of statements the consumer executes while it holds the
\* generator.
MaxWrites == 1

\* The rows the writer leaves for a module: opened and not finalized,
\* finalized, ignored, failed.
StoredRows(name) ==
    { StoredModule(ModuleData(name, None, None, None)),
      [StoredModule(ModuleData(name, None, None, None))
          EXCEPT !.count = Some(0), !.status = Some("OK")],
      StoredModule(ModuleData(name, None, Some("IGNORE"), Some(IgnoreReason(name)))),
      StoredModule(ModuleData(name, None, <<"RuntimeError", "boom">>, None)) }

\* The tables: at most one row for a name (name is the primary key).
StoredTables ==
    { T \in SUBSET (UNION { StoredRows(n) : n \in StoredNames }) :
        \A r, q \in T : r.name = q.name => r = q }

SInit ==
    /\ members = [c \in Containers |-> {}]
    /\ candidates = << >> /\ done = {} /\ ignore = {}
    /\ mip_pc = "end" /\ mip_idx = 1 /\ mip_seen = {}
    /\ seen = {} /\ queue = << >> /\ queued = {} /\ stack = << >>
    /\ appended = << >>
    /\ item_count = 0 /\ cur_module = None
    /\ houdini_modules \in StoredTables /\ houdini_module_data = << >>
    /\ foreign_keys = TRUE /\ in_txn = FALSE /\ uncommitted = 0
    /\ committed = Tables(houdini_modules, << >>) /\ pending = {}
    /\ crash_points = << >>
    /\ at_yield = None /\ consumer = "drain" /\ db_path = FALSE /\ hou_init = "no"
    /\ categories = << >>
    /\ error = "none"
    /\ received = << >> /\ pass = 11 /\ tape = << >> /\ snapshot = << >>
    /\ stored = None
    /\ NoMock /\ NoInput
    /\ host = Host(None) /\ iow = None /\ imports = << >>
    /\ fs = NoFiles /\ paths = << >> /\ path_idx = 1 /\ found = << >>

\* get_stored_modules(db_path, connection, successful, failed) is called: a
\* generator is returned, and none of its statements has run.  The database
\* is given by a connection, by the path of a file that exists or of one
\* that does not, or not at all; a database without the table
\* houdini_modules has no rows; any of the three queries may meet a database
\* error, and so may the opening of a path that exists.
GetStoredModules ==
    /\ pass = 11 /\ IsNone(stored)
    /\ \E db \in {"connection", "path", "missing", "neither"},
          successful \in BOOLEAN, failed \in BOOLEAN, exists \in BOOLEAN :
         \E fault \in Faults(exists, successful, failed)
                         \cup (IF db = "path" THEN {"connect"} ELSE {}) :
           /\ exists \/ houdini_modules = {}
           /\ db \in {"missing", "neither"} => ~exists /\ fault = "none"
           /\ fault = "connect" => ~exists
           /\ stored' = Some(StoredGenerator(db, exists, successful, failed, fault))
    /\ UNCHANGED <<envvars, walkvars, dbvars, received, pass, tape, snapshot,
                   hostvars, scanvars, mockvars, purevars>>

\* next(generator): the generator runs to its next yield, where it hands
\* out one of the rows fetched (the SELECT has no ORDER BY), or to its end.
StoredNext ==
    /\ pass = 11 /\ ~IsNone(stored) /\ stored[1].pc # "end"
    /\ LET g == get_stored_modules_next(stored[1], houdini_modules)
       IN  IF g.pc = "end"
             THEN stored' = Some(g)
             ELSE \E n \in g.rows :
                    stored' = Some([g EXCEPT !.names = Append(@, n),
                                             !.rows = @ \ {n}])
    /\ UNCHANGED <<envvars, walkvars, dbvars, received, pass, tape, snapshot,
                   hostvars, scanvars, mockvars, purevars>>

\* The consumer, holding the generator, executes and commits a statement on
\* houdini_modules: INSERT OR REPLACE of a row, or DELETE of the row of a
\* name.
StoredConsumerWrites ==
    /\ pass = 11 /\ ~IsNone(stored) /\ stored[1].pc # "end"
    /\ stored[1].exists /\ stored[1].writes < MaxWrites
    /\ \E n \in StoredNames :
         \/ \E row \in StoredRows(n) :
              houdini_modules' = ReplaceModule(houdini_modules, row)
         \/ houdini_modules' = { r \in houdini_modules : r.name # n }
    /\ houdini_modules' # houdini_modules
    /\ committed' = Tables(houdini_modules', houdini_module_data)
    /\ stored' = Some([stored[1] EXCEPT !.writes = @ + 1])
    /\ UNCHANGED <<item_count, cur_module, houdini_module_data, foreign_keys,
                   in_txn, uncommitted, pending, crash_points, at_yield, error>>
    /\ UNCHANGED <<envvars, walkvars, received, pass, tape, snapshot,
                   hostvars, scanvars, mockvars, purevars>>

SNext == GetStoredModules \/ StoredNext \/ StoredConsumerWrites

SSpec == SInit /\ [][SNext]_vars

(***************************************************************************)
(* infinite_mock.py : InfiniteMock                                         *)
(***************************************************************************)
\* The longest chain of accesses followed from the root mock.
MaxChain == 2

\* _no_mock: the names __getattr__ and __setattr__ hand to the base class.
no_mock ==
    { "in_traceback", "_path_", "__path_",
      "__getattr__", "__setattr__", "__getitem__",
      "__setitem__", "__iter__", "__len__", "__int__",
      "__index__", "__bool__",
      "__add__", "__radd__", "__sub__", "__rsub__",
      "__neg__", "__mul__", "__rmul__", "__div__",
      "__rdiv__", "__truediv__", "__rtruediv__",
      "__divmod__", "__rdivmod__", "__floordiv__",
      "__rfloordiv__", "__mod__", "__rmod__",
      "__pow__", "__rpow__", "__lshift__", "__rlshift__",
      "__rshift__", "__rrshift__", "__and__", "__rand__",
      "__or__", "__ror__", "__xor__", "__rxor__",
      "__float__", "__str__", "__call__", "__repr__",
      "_in_traceback_", "_hou_",
      "__name__" }

\* A value that is not an InfiniteMock, by the name of its type, and the
\* outcome of an access that raises.
Value(kind, v) == [kind |-> kind, value |-> v]
Raise(type) == [kind |-> "raise", value |-> type]

\* InfiniteMock.__setattr__: a name of _no_mock is set in the instance
\* dictionary `attrs`, any other assignment is dropped.
InfiniteMock_setattr(m, name, value) ==
    IF name \in no_mock
      THEN [kind |-> "InfiniteMock",
            attrs |-> [n \in DOMAIN m.attrs \cup {name} |->
                          IF n = name THEN value ELSE m.attrs[n]]]
      ELSE m

\* InfiniteMock.__init__: both assignments go through __setattr__, which
\* keeps them because the two names are in _no_mock.
InfiniteMock(hou, path) ==
    [kind |-> "InfiniteMock",
     attrs |-> [n \in {"_hou_", "__name__"} |->
                   IF n = "_hou_" THEN Value("hou", hou) ELSE Value("str", path)]]

\* self.__name__ and self._hou_
mock_name(m) == m.attrs["__name__"].value
mock_hou(m) == m.attrs["_hou_"].value

\* The methods the class body of InfiniteMock defines.
ClassMethods ==
    (no_mock \ {"in_traceback", "_path_", "__path_", "_hou_", "__name__",
                "_in_traceback_"})
      \cup {"__init__"}

\* The attributes the class body of InfiniteMock defines: the methods, the
\* docstring, the flag _in_traceback_, and __annotations__ and __module__,
\* which the class statement adds.
ClassAttributes ==
    ClassMethods \cup {"_in_traceback_", "__doc__", "__annotations__", "__module__"}

\* The attributes an instance finds on the bases ModuleType and object
\* (Python 3.11): slot wrappers and builtin methods.
MethodWrappers ==
    { "__delattr__", "__eq__", "__ge__", "__getattribute__", "__gt__", "__hash__",
      "__le__", "__lt__", "__ne__" }
BuiltinMethods ==
    { "__dir__", "__format__", "__getstate__", "__init_subclass__", "__new__",
      "__reduce__", "__reduce_ex__", "__sizeof__", "__subclasshook__" }

\* The ordinary attribute lookup of the base class: the data descriptors
\* __class__ and __dict__, the instance dictionary, the class, the bases,
\* then AttributeError.
object_getattribute(m, name) ==
    IF name = "__class__" THEN Value("type", "InfiniteMock")
    ELSE IF name = "__dict__" THEN Value("dict", "__dict__")
    ELSE IF name \in DOMAIN m.attrs THEN m.attrs[name]
    ELSE IF name \in ClassAttributes
      THEN CASE name = "_in_traceback_" -> Value("bool", FALSE)
             [] name = "__doc__" -> Value("str", "A mock class")
             [] name = "__annotations__" -> Value("dict", "__annotations__")
             [] name = "__module__" -> Value("str", "zabob.common.infinite_mock")
             [] OTHER -> Value("method", name)
    ELSE IF name \in MethodWrappers THEN Value("method-wrapper", name)
    ELSE IF name \in BuiltinMethods THEN Value("builtin_function_or_method", name)
    ELSE Raise("AttributeError")

\* InfiniteMock.__getattr__ with its last line `return InfiniteMock(...)`
\* replaced by the AttributeError of a plain module.
InfiniteMock_getattr_no_default(m, name) ==
    [self |-> m, result |-> Raise("AttributeError")]

\* InfiniteMock.__getattr__, the hook Python calls when the ordinary lookup
\* fails.  The result is the object after the access and what was returned.
InfiniteMock_getattr(m, name) ==
    LET path == mock_name(m) \o "." \o name
    IN  IF name \in no_mock
          THEN [self |-> m, result |-> object_getattribute(m, name)]
        ELSE IF name = "colorFromName"
          THEN [self |-> m, result |-> Value("function", "colorFromName")]
        ELSE IF name = "__qualname__"
          THEN [self |-> m, result |-> Value("str", mock_name(m))]
        ELSE IF name \in {"__file__", "__doc__", "__annotations__"}
          THEN [self |-> m, result |-> Value("NoneType", "None")]
        ELSE IF name = "__mro_entries__"
          THEN [self |-> m, result |-> Value("function", "mro_entries")]
        ELSE IF name = "this"
          THEN IF object_getattribute(m, "_in_traceback_").value
                 THEN [self |-> m, result |-> Value("str", path)]
                 ELSE \* self.in_traceback = True, which sets another name
                      \* than the flag the branch tests
                      [self |-> InfiniteMock_setattr(m, "in_traceback",
                                                     Value("bool", TRUE)),
                       result |-> InfiniteMock(mock_hou(m), path)]
        ELSE [self |-> m, result |-> InfiniteMock(mock_hou(m), path)]

\* m.<name>: the ordinary lookup, and __getattr__ when it fails.
getattr(m, name) ==
    LET r == object_getattribute(m, name)
    IN  IF r.kind # "raise" THEN [self |-> m, result |-> r]
        ELSE InfiniteMock_getattr(m, name)

\* InfiniteMock.__getitem__
InfiniteMock_getitem(m, key) ==
    [self |-> m, result |-> InfiniteMock(mock_hou(m), mock_name(m) \o "[" \o key \o "]")]

\* InfiniteMock.__call__
InfiniteMock_call(m) ==
    [self |-> m, result |-> InfiniteMock(mock_hou(m), mock_name(m) \o "()")]

\* The attribute names and keys the accesses are made with: plain names, each
\* name __getattr__ treats on its own, names of _no_mock that are and are
\* not attributes of the object, and names every object has.
MockNames ==
    { "someWidget", "someMethod", "colorFromName", "__qualname__", "__file__",
      "__doc__", "__annotations__", "__mro_entries__", "this", "_path_",
      "in_traceback", "_in_traceback_", "__name__", "_hou_", "__call__",
      "__class__", "__dict__", "__init__", "__module__", "__eq__", "__hash__",
      "__reduce__" }
MockKeys == { "0", "k" }

\* The assignments m.<name> = value made on a mock: the flag that `this`
\* tests, the name of the mock, and a name that is not in _no_mock.
MockAssignments ==
    { <<"_in_traceback_", Value("bool", TRUE)>>, <<"__name__", Value("str", "w")>>,
      <<"someWidget", Value("bool", TRUE)>> }

\* hou.ui = InfiniteMock(hou, 'hou.ui'), as _load_module installs it.
MInit ==
    /\ mock = InfiniteMock("hou", "hou.ui")
    /\ mock_step = None /\ mock_result = None /\ mock_depth = 0
    /\ members = [c \in Containers |-> {}]
    /\ candidates = << >> /\ done = {} /\ ignore = {}
    /\ mip_pc = "end" /\ mip_idx = 1 /\ mip_seen = {}
    /\ seen = {} /\ queue = << >> /\ queued = {} /\ stack = << >>
    /\ appended = << >>
    /\ item_count = 0 /\ cur_module = None
    /\ houdini_modules = {} /\ houdini_module_data = << >>
    /\ foreign_keys = TRUE /\ in_txn = FALSE /\ uncommitted = 0
    /\ committed = Tables({}, << >>) /\ pending = {} /\ crash_points = << >>
    /\ at_yield = None /\ consumer = "drain" /\ db_path = FALSE /\ hou_init = "no"
    /\ categories = << >>
    /\ error = "none"
    /\ received = << >> /\ pass = 5 /\ tape = << >> /\ snapshot = << >>
    /\ stored = None
    /\ host = Host(None) /\ iow = None /\ imports = << >>
    /\ fs = NoFiles /\ paths = << >> /\ path_idx = 1 /\ found = << >>
    /\ NoInput

UNCH_mock == UNCHANGED <<envvars, walkvars, dbvars, received, pass, tape,
                         snapshot, stored, hostvars, scanvars, purevars>>

Accessed(step, r) ==
    /\ mock' = r.self
    /\ mock_step' = Some(step)
    /\ mock_result' = Some(r.result)
    /\ UNCHANGED mock_depth
    /\ UNCH_mock

\* m.<name>
MockGetAttr ==
    /\ pass = 5
    /\ \E name \in MockNames :
          Accessed([op |-> "getattr", arg |-> name, on |-> mock], getattr(mock, name))

\* m.<name> = value
MockSetAttr ==
    /\ pass = 5
    /\ \E a \in MockAssignments :
          Accessed([op |-> "setattr", arg |-> a[1], on |-> mock],
                   [self |-> InfiniteMock_setattr(mock, a[1], a[2]),
                    result |-> Value("NoneType", "None")])

\* m[key]
MockGetItem ==
    /\ pass = 5
    /\ \E key \in MockKeys :
          Accessed([op |-> "getitem", arg |-> key, on |-> mock],
                   InfiniteMock_getitem(mock, key))

\* m(...)
MockCall ==
    /\ pass = 5
    /\ Accessed([op |-> "call", arg |-> "", on |-> mock], InfiniteMock_call(mock))

\* The chain goes on from the object the last access returned.
MockFollow ==
    /\ pass = 5
    /\ mock_depth < MaxChain
    /\ mock_result # None /\ mock_result[1].kind = "InfiniteMock"
    /\ mock' = mock_result[1]
    /\ mock_step' = None /\ mock_result' = None
    /\ mock_depth' = mock_depth + 1
    /\ UNCH_mock

MNext == MockGetAttr \/ MockSetAttr \/ MockGetItem \/ MockCall \/ MockFollow

MSpec == MInit /\ [][MNext]_vars

(***************************************************************************)
(* analyze_modules.py : _dtype and _docstring, the two conversions of      *)
(* _mk_datum that look at the value itself                                 *)
(***************************************************************************)
\* A type, by its __name__, and the builtin tuple.
Type(name) == [name |-> name]
tuple == Type("tuple")

\* The pieces the type names of the model are made of, and the names.
NamePrefixes == { "", "named", "_" }
NameStems == { "tuple", "Tuple", "TUPLE", "tupl", "int" }
NameSuffixes == { "", "_t", "Parm" }
TypeNames == { a \o m \o b : a \in NamePrefixes, m \in NameStems, b \in NameSuffixes }

\* `sub in name` for the names of the model.
Contains(name, sub) ==
    \E a \in NamePrefixes, b \in NameSuffixes : name = a \o sub \o b

\* _dtype that maps only the type named exactly 'tuple'.
dtype_exact(v) == IF v.type.name = "tuple" THEN tuple ELSE v.type

\* _dtype(v)
dtype(v) ==
    LET t == v.type
        name == t.name
    IN  IF Contains(name, "tuple") \/ Contains(name, "Tuple") THEN tuple ELSE t

\* common_utils.get_name on a type: the case `hasattr(d, '__name__')`.
get_name_type(d) == d.name

\* A documentation string is the sequence of its lines; a line is the number
\* of its leading spaces and the text after them.
Line(indent, text) == [indent |-> indent, text |-> text]
EmptyString == << Line(0, "") >>

RECURSIVE PopTrailing(_)
PopTrailing(lines) ==
    IF lines # << >> /\ lines[Len(lines)] = Line(0, "")
      THEN PopTrailing(SubSeq(lines, 1, Len(lines) - 1)) ELSE lines

RECURSIVE PopLeading(_)
PopLeading(lines) ==
    IF lines # << >> /\ lines[1] = Line(0, "") THEN PopLeading(Tail(lines)) ELSE lines

\* inspect.cleandoc(doc)
cleandoc(doc) ==
    LET rest == { i \in 2..Len(doc) : doc[i].text # "" }
        indents == { doc[i].indent : i \in rest }
        margin == CHOOSE x \in indents : \A y \in indents : x <= y
        cut(l) == IF rest = {} THEN l
                  ELSE [l EXCEPT !.indent = IF @ > margin THEN @ - margin ELSE 0]
        lines == [i \in 1..Len(doc) |->
                     IF i = 1 THEN [doc[1] EXCEPT !.indent = 0] ELSE cut(doc[i])]
        kept == PopLeading(PopTrailing(lines))
    IN  IF kept = << >> THEN EmptyString ELSE kept

\* inspect.getdoc(o): o.__doc__, else the documentation found on the bases
\* (_finddoc), cleaned.
getdoc(o) ==
    IF ~IsNone(o.doc) THEN Some(cleandoc(o.doc[1]))
    ELSE IF ~IsNone(o.inherited) THEN Some(cleandoc(o.inherited[1]))
    ELSE None

\* type(v) as an object with documentation: for a class without a __doc__
\* of its own, _finddoc takes the first one along its __mro__.
TypeOf(v) == [doc |-> v.type_doc, inherited |-> v.type_inherited]

\* _docstring without its last `or None`.
docstring_keeps_empty(v) ==
    LET own == getdoc(v)
        parent == getdoc(TypeOf(v))
    IN  IF IsNone(own) THEN None
        ELSE IF own = parent THEN None
        ELSE own

\* _docstring(v)
docstring(v) ==
    LET own == getdoc(v)
        parent == getdoc(TypeOf(v))
    IN  IF IsNone(own) THEN None
        ELSE IF own = parent THEN None
        ELSE IF getdoc(v) = Some(EmptyString) THEN None ELSE getdoc(v)

\* The documentation strings of the model: "hi", "", three spaces, an
\* indented block whose text is "hi", two lines, "Built-in", "base".
RawDocs ==
    { << Line(0, "hi") >>, EmptyString, << Line(3, "") >>,
      << Line(0, ""), Line(4, "hi"), Line(4, "") >>,
      << Line(0, "hi"), Line(2, ""), Line(4, "there"), Line(2, "end") >>,
      << Line(0, "Built-in") >> }
TypeDocs == { None, Some(<< Line(0, "hi") >>), Some(<< Line(2, "hi") >>),
              Some(<< Line(0, "Built-in") >>) }
\* The documentation the bases of a type have.
BaseDocs == { None, Some(<< Line(2, "hi") >>), Some(<< Line(0, "base") >>) }

\* The values given to _mk_datum: the name of the type, the value's __doc__,
\* what _finddoc finds for a value without one, the type's __doc__, and what
\* _finddoc finds for a type without one.
Values ==
    { [type |-> Type(n), doc |-> d, inherited |-> i, type_doc |-> td,
       type_inherited |-> ti] :
        n \in TypeNames, d \in {None} \cup { Some(x) : x \in RawDocs },
        i \in {None, Some(<< Line(0, "base") >>)}, td \in TypeDocs,
        ti \in BaseDocs }

VInit ==
    /\ input \in { v \in Values : /\ ~IsNone(v.doc) => IsNone(v.inherited)
                                  /\ ~IsNone(v.type_doc) => IsNone(v.type_inherited) }
    /\ output = None
    /\ members = [c \in Containers |-> {}]
    /\ candidates = << >> /\ done = {} /\ ignore = {}
    /\ mip_pc = "end" /\ mip_idx = 1 /\ mip_seen = {}
    /\ seen = {} /\ queue = << >> /\ queued = {} /\ stack = << >>
    /\ appended = << >>
    /\ item_count = 0 /\ cur_module = None
    /\ houdini_modules = {} /\ houdini_module_data = << >>
    /\ foreign_keys = TRUE /\ in_txn = FALSE /\ uncommitted = 0
    /\ committed = Tables({}, << >>) /\ pending = {} /\ crash_points = << >>
    /\ at_yield = None /\ consumer = "drain" /\ db_path = FALSE /\ hou_init = "no"
    /\ categories = << >>
    /\ error = "none"
    /\ received = << >> /\ pass = 6 /\ tape = << >> /\ snapshot = << >>
    /\ stored = None
    /\ host = Host(None) /\ iow = None /\ imports = << >>
    /\ fs = NoFiles /\ paths = << >> /\ path_idx = 1 /\ found = << >>
    /\ NoMock

\* _mk_datum computes datatype and docstring of the value, and the writer
\* binds get_name(datum.datatype) and datum.docstring to the INSERT.
MkDatumOfValue ==
    /\ pass = 6 /\ IsNone(output)
    /\ output' = Some([datatype |-> get_name_type(dtype(input)),
                       docstring |-> docstring(input)])
    /\ UNCHANGED input
    /\ UNCHANGED <<envvars, walkvars, dbvars, received, pass, tape, snapshot,
                   stored, hostvars, scanvars, mockvars>>

VNext == MkDatumOfValue

VSpec == VInit /\ [][VNext]_vars

(***************************************************************************)
(* _load_module called directly, several times with the same seen set,     *)
(* queue and queued set, as analyze_modules calls it but without a new     *)
(* seen set for each call.                                                 *)
(***************************************************************************)
\* The largest number of calls of one run.
MaxCalls == 2

\* The modules _load_module is called for.
HModules == {"ma", "mb"}

\* The references of the graphs of these runs.
HEdges ==
    { <<"ma", "mb">>, <<"ma", "k1">>, <<"ma", "f">>, <<"mb", "mc">>, <<"k1", "f">> }

HGraphs ==
    { [c \in Containers |-> { e[2] : e \in { x \in E : x[1] = c } }] :
        E \in { X \in SUBSET HEdges : Cardinality(X) <= MaxEdges } }

\* The parent given to a call with top=False.
HParent == Some(HoudiniStaticData("c", "MODULE", "module", None, None))

HInit ==
    /\ members \in HGraphs
    /\ candidates = << >>
    /\ \E sc \in Scenarios : done = sc[1] /\ ignore = sc[2] /\ host = Host(sc[3])
    /\ iow = None /\ imports = << >>
    /\ fs = NoFiles /\ paths = << >> /\ path_idx = 1 /\ found = << >>
    /\ mip_pc = "end" /\ mip_idx = 1 /\ mip_seen = {}
    /\ seen = {} /\ queue = << >> /\ queued = {} /\ stack = << >>
    /\ appended = << >>
    /\ item_count = 0 /\ cur_module = None
    /\ houdini_modules = {} /\ houdini_module_data = << >>
    /\ foreign_keys = TRUE /\ in_txn = FALSE /\ uncommitted = 0
    /\ committed = Tables({}, << >>) /\ pending = {} /\ crash_points = << >>
    /\ at_yield = None /\ consumer = "drain" /\ db_path = FALSE /\ hou_init = "no"
    /\ categories = << >>
    /\ error = "none"
    /\ received = << >> /\ pass = 0 /\ tape = << >> /\ snapshot = << >>
    /\ stored = None
    /\ NoMock /\ NoInput

\* _load_module(module, seen, done, ignore, queue, queued, parent, top) is
\* called when the generator of the call before it is exhausted; `input`
\* keeps the calls made: the module, the seen set and the length of the
\* stream at the call.
CallLoadModule ==
    /\ Running /\ mip_pc = "end" /\ stack = << >>
    /\ Len(input) < MaxCalls
    /\ \E module \in HModules, top \in BOOLEAN :
         /\ stack' = <<Frame("_load_module", module,
                             IF top THEN None ELSE HParent, top, "")>>
         /\ input' = Append(input, [module |-> module, top |-> top,
                                    seen |-> seen, at |-> Len(received)])
    /\ UNCHANGED <<mip_pc, mip_idx, mip_seen, seen, queue, queued, appended>>
    /\ UNCHANGED <<envvars, pass, tape, snapshot, stored, scanvars, mockvars, output>>
    /\ NoEmit /\ NoImport

HNext ==
    \/ CallLoadModule
    \/ LoadModuleEnter
    \/ LoadModuleIgnored
    \/ LoadModuleDatum
    \/ LoadModuleMember
    \/ LoadModuleMembersDone
    \/ LoadModuleDrain
    \/ LoadClassEnter
    \/ LoadClassMember
    \/ LoadClassDone
    \/ YieldFunctionSignatures
    \/ WriterResume

HSpec == HInit /\ [][HNext]_vars

(***************************************************************************)
(* _mk_datum on one call: the item, the type the walker passes, the datum  *)
(* of the parent and the member name.                                      *)
(***************************************************************************)
\* The items given to _mk_datum: a value of an enumeration of the host, a
\* function, a class, the class hou.EnumValue, a module, an int, a member of
\* an Enum, a property and an enum.property.
EItems == {"e1", "f", "k1", "ev", "ma", "n1", "r1", "pr", "pn"}

\* The types the call sites of _mk_datum pass.
ETypes == {"MODULE", "CLASS", "ENUM", "ENUMTYPE", "FUNCTION", "METHOD",
           "ATTRIBUTE", "OBJECT"}

\* The parents: none (a top module), the datum of a module, of a class and
\* of an enumeration class.
EParents ==
    { None,
      Some(HoudiniStaticData("a", "MODULE", "module", None, None)),
      Some(HoudiniStaticData("K", "CLASS", "type", Some("a"), Some("MODULE"))),
      Some(HoudiniStaticData("L", "ENUM", "type", Some("a"), Some("MODULE"))) }

\* The name argument: absent, a member name, and the member name EnumValue.
ENames == {"", "x", "EnumValue"}

EInit ==
    /\ input \in [item : EItems, type : ETypes, parent : EParents, name : ENames,
                  id : Addresses]
    /\ output = None
    /\ members = [c \in Containers |-> {}]
    /\ candidates = << >> /\ done = {} /\ ignore = {}
    /\ mip_pc = "end" /\ mip_idx = 1 /\ mip_seen = {}
    /\ seen = {} /\ queue = << >> /\ queued = {} /\ stack = << >>
    /\ appended = << >>
    /\ item_count = 0 /\ cur_module = None
    /\ houdini_modules = {} /\ houdini_module_data = << >>
    /\ foreign_keys = TRUE /\ in_txn = FALSE /\ uncommitted = 0
    /\ committed = Tables({}, << >>) /\ pending = {} /\ crash_points = << >>
    /\ at_yield = None /\ consumer = "drain" /\ db_path = FALSE /\ hou_init = "no"
    /\ categories = << >>
    /\ error = "none"
    /\ received = << >> /\ pass = 9 /\ tape = << >> /\ snapshot = << >>
    /\ stored = None
    /\ host = Host(None) /\ iow = None /\ imports = << >>
    /\ fs = NoFiles /\ paths = << >> /\ path_idx = 1 /\ found = << >>
    /\ NoMock

\* One call _mk_datum(item, type, parent, name).
MkDatumOfItem ==
    /\ pass = 9 /\ IsNone(output)
    /\ output' = Some(mk_datum(input.item, input.type, input.parent, input.name))
    /\ UNCHANGED input
    /\ UNCHANGED <<envvars, walkvars, dbvars, received, pass, tape, snapshot,
                   stored, hostvars, scanvars, mockvars>>

ENext == MkDatumOfItem

ESpec == EInit /\ [][ENext]_vars

(***************************************************************************)
(* analysis_table.py : AnalysisTableDescriptor's mapping of field types    *)
(***************************************************************************)
\* The largest number of members of a union type X | Y | ...
MaxUnion == 3

\* Type expressions: a class, a string inside a type expression (the forward
\* reference of list['JsonData'], the value of Literal['a']), a parametrized
\* generic such as set[int], a union written X | Y (types.UnionType), a
\* typing.Union[X, Y] and a typing.Literal[...].  args is the tuple
\* typing.get_args returns.
Class(name) == [kind |-> "class", name |-> name, args |-> << >>]
Str(s) == [kind |-> "str", name |-> s, args |-> << >>]
GenericAlias(origin, args) == [kind |-> "generic", name |-> origin, args |-> args]
Generic(origin, arg) == GenericAlias(origin, <<Class(arg)>>)
UnionTypeOf(args) == [kind |-> "UnionType", name |-> "", args |-> args]
LiteralOf(args) == [kind |-> "Literal", name |-> "", args |-> args]
NoneType == Class("NoneType")

\* typing.Union[*args]: a union of one type is that type.
Union(args) ==
    IF Len(args) = 1 THEN args[1]
    ELSE [kind |-> "Union", name |-> "", args |-> args]

\* typing.Optional[X] is typing.Union[X, None]
Optional(t) == Union(<<t, NoneType>>)

\* common_types.py: the aliases of the JSON types.  X | Y of two unions is the
\* union of their members.
JsonAtomicNonNull ==
    UnionTypeOf(<<Class("str"), Class("int"), Class("float"), Class("bool")>>)
JsonAtomic == UnionTypeOf(JsonAtomicNonNull.args \o <<NoneType>>)
JsonArray == GenericAlias("list", <<Str("JsonData")>>)
JsonObject == GenericAlias("dict", <<Class("str"), Str("JsonData")>>)
JsonDataNonNull == UnionTypeOf(<<JsonArray, JsonObject>> \o JsonAtomicNonNull.args)
JsonData == UnionTypeOf(JsonDataNonNull.args \o <<NoneType>>)

\* typing.get_origin and typing.get_args; the origin is None for a class and
\* for a string.
get_origin(ft) ==
    CASE ft.kind = "generic" -> Some(ft.name)
      [] ft.kind = "UnionType" -> Some("UnionType")
      [] ft.kind = "Union" -> Some("Union")
      [] ft.kind = "Literal" -> Some("Literal")
      [] OTHER -> None
get_args(ft) == ft.args

\* The origin as a value: the class, or the special form typing.Union or
\* typing.Literal, which is not a class.
OriginOf(name) ==
    IF name \in {"Union", "Literal"}
      THEN [kind |-> "special", name |-> name, args |-> << >>]
      ELSE Class(name)

\* The classes of the tuple is_jsonable gives to issubclass.
JsonableOrigins ==
    { "int", "float", "bool", "str", "list", "dict", "tuple", "frozenset",
      "Path", "type", "GenericAlias", "UnionType" }

\* The bases of the classes of the model that have one besides object.
Bases(cls) ==
    CASE cls = "bool" -> {"int"} [] cls = "Counter" -> {"dict"} [] OTHER -> {}

\* issubclass(cls, classes) for a class cls
issubclass(cls, classes) == cls \in classes \/ Bases(cls) \cap classes # {}

\* is_jsonable(ft): all(...) over the origins of the members of ft, None left
\* out, in the order of get_args; all stops at the first origin that fails.
\* issubclass raises TypeError when its first argument is typing.Union, which
\* is not a class.  A type without members passes.
is_jsonable(ft) ==
    LET args == get_args(ft)
        origins == SelectSeq([i \in 1..Len(args) |-> get_origin(args[i])],
                             LAMBDA t : ~IsNone(t))
        accepted(t) == t[1] = "Literal"
                         \/ (t[1] # "Union" /\ issubclass(t[1], JsonableOrigins))
        failing == { i \in 1..Len(origins) : ~accepted(origins[i]) }
        first == CHOOSE i \in failing : \A j \in failing : i <= j
    IN  IF failing = {} THEN [raised |-> None, value |-> TRUE]
        ELSE IF origins[first][1] = "Union"
          THEN [raised |-> Some(<<"TypeError", "issubclass() arg 1 must be a class">>),
                value |-> FALSE]
        ELSE [raised |-> None, value |-> FALSE]

\* A result (sql_type, actual_type, nullable) of _map_type.
Mapped(sql_type, py_type, nullable) ==
    [raised |-> None, sql_type |-> sql_type, py_type |-> Some(py_type),
     nullable |-> nullable]

\* The chain `if actual_type in (int, bool) ... else` at the end of _map_type.
BasicType(actual_type) ==
    IF actual_type \in {Class("int"), Class("bool")}
      THEN Mapped("INTEGER", actual_type, FALSE)
    ELSE IF actual_type = Class("float")
      THEN Mapped("REAL", actual_type, FALSE)
    ELSE IF actual_type = Class("str")
      THEN Mapped("TEXT", actual_type, FALSE)
    ELSE IF actual_type \in {JsonAtomic, JsonAtomicNonNull, JsonData, JsonDataNonNull,
                             JsonArray, JsonObject, Class("dict"), Class("list"),
                             Class("tuple")}
      THEN Mapped("TEXT", JsonData, TRUE)
    ELSE Mapped("TEXT", actual_type, FALSE)

RECURSIVE map_type(_)
\* AnalysisTableDescriptor._map_type(field_type): the tuple it returns, or the
\* exception of is_jsonable that leaves it.
map_type(field_type) ==
    LET origin == get_origin(field_type)
        args == get_args(field_type)
        jsonable == is_jsonable(field_type)
        actual_type == IF IsNone(origin) THEN field_type ELSE OriginOf(origin[1])
    IN  IF origin = Some("UnionType") /\ \E i \in 1..Len(args) : args[i] = NoneType
          THEN LET inner == map_type(Union(SelectSeq(args, LAMBDA t : t # NoneType)))
               IN  IF IsNone(inner.raised)
                     THEN Mapped(inner.sql_type, inner.py_type[1], TRUE)
                     ELSE inner
        ELSE IF ~IsNone(jsonable.raised)
          THEN [raised |-> jsonable.raised, sql_type |-> "", py_type |-> None,
                nullable |-> FALSE]
        ELSE IF jsonable.value
          THEN Mapped("TEXT", JsonData, FALSE)
        ELSE BasicType(actual_type)

\* AnalysisTableDescriptor._field_to_column_def(field): the column
\* definition, or the exception of _map_type that leaves it.
field_to_column_def(name, type) ==
    LET m == map_type(type)
        col_def == name \o " " \o m.sql_type
    IN  IF ~IsNone(m.raised) THEN [raised |-> m.raised, value |-> ""]
        ELSE [raised |-> None,
              value |-> IF m.nullable THEN col_def \o " DEFAULT NULL"
                        ELSE col_def \o " NOT NULL"]

\* The types a union of the model is made of, in the order the declaration
\* writes them.
TypeAtoms ==
    << Class("int"), Class("bool"), Class("float"), Class("str"), Class("list"),
       Class("dict"), Class("Path"), Generic("list", "int"), Generic("set", "int"),
       Generic("Counter", "str"), GenericAlias("list", <<Generic("set", "int")>>),
       GenericAlias("list", <<Optional(Class("int"))>>),
       GenericAlias("list", <<LiteralOf(<<Str("a")>>)>>), NoneType >>

\* The declared types of the fields of the model: the atoms, the unions of
\* up to MaxUnion of them, the aliases of common_types, and two generics
\* whose members differ in order.
TypeExpressions ==
    { TypeAtoms[i] : i \in 1..(Len(TypeAtoms) - 1) }
      \cup { UnionTypeOf(SelectSeq(TypeAtoms, LAMBDA t : t \in X)) :
               X \in { Y \in SUBSET { TypeAtoms[i] : i \in 1..Len(TypeAtoms) } :
                         Cardinality(Y) \in 2..MaxUnion } }
      \cup { JsonAtomicNonNull, JsonAtomic, JsonArray, JsonObject,
             JsonDataNonNull, JsonData }
      \cup { GenericAlias("dict", <<Generic("set", "int"), Optional(Class("int"))>>),
             GenericAlias("dict", <<Optional(Class("int")), Generic("set", "int")>>) }

TInit ==
    /\ input \in TypeExpressions
    /\ output = None
    /\ members = [c \in Containers |-> {}]
    /\ candidates = << >> /\ done = {} /\ ignore = {}
    /\ mip_pc = "end" /\ mip_idx = 1 /\ mip_seen = {}
    /\ seen = {} /\ queue = << >> /\ queued = {} /\ stack = << >>
    /\ appended = << >>
    /\ item_count = 0 /\ cur_module = None
    /\ houdini_modules = {} /\ houdini_module_data = << >>
    /\ foreign_keys = TRUE /\ in_txn = FALSE /\ uncommitted = 0
    /\ committed = Tables({}, << >>) /\ pending = {} /\ crash_points = << >>
    /\ at_yield = None /\ consumer = "drain" /\ db_path = FALSE /\ hou_init = "no"
    /\ categories = << >>
    /\ error = "none"
    /\ received = << >> /\ pass = 7 /\ tape = << >> /\ snapshot = << >>
    /\ stored = None
    /\ host = Host(None) /\ iow = None /\ imports = << >>
    /\ fs = NoFiles /\ paths = << >> /\ path_idx = 1 /\ found = << >>
    /\ NoMock

\* The descriptor maps the type of a field named "id" and writes its column
\* definition.
MapFieldType ==
    /\ pass = 7 /\ IsNone(output)
    /\ output' = Some([raised |-> map_type(input).raised,
                       sql_type |-> map_type(input).sql_type,
                       py_type |-> map_type(input).py_type,
                       nullable |-> map_type(input).nullable,
                       col_def |-> field_to_column_def("id", input).value])
    /\ UNCHANGED input
    /\ UNCHANGED <<envvars, walkvars, dbvars, received, pass, tape, snapshot,
                   stored, hostvars, scanvars, mockvars>>

TNext == MapFieldType

TSpec == TInit /\ [][TNext]_vars

(***************************************************************************)
(* analysis_table.py : the construction of a table descriptor              *)
(***************************************************************************)
\* The fields a class of the model declares, in order: none, one or two.
AFieldLists ==
    LET F == [name : {"id", "name"},
              type : {Class("str"), Class("int"), UnionTypeOf(<<Class("str"), NoneType>>)}]
    IN  { << >> } \cup { <<f>> : f \in F }
          \cup { <<f, g>> : f \in { x \in F : x.name = "id" },
                            g \in { x \in F : x.name = "name" } }

\* The classes given to the descriptor: decorated with @dataclass or not.
AClasses == [name : {"Empty", "Simple", "NotADataclass"},
             module : {"__main__", "tests.test_analysis_tables"},
             is_dataclass : BOOLEAN, fields : AFieldLists]

\* repr(cls) of a class: its module and name
ClassRepr(cls) == "<class '" \o cls.module \o "." \o cls.name \o "'>"

\* The primary_key argument: the default () and one column.
APrimaryKeys == { << >>, <<"id">> }

\* str.lower on the class names of the model
Lower(name) ==
    CASE name = "Empty" -> "empty" [] name = "Simple" -> "simple"
      [] name = "NotADataclass" -> "notadataclass"

\* AnalysisTableDescriptor.__init__(dataclass, primary_key=...): the exception
\* that leaves it, or the table name and primary key of the descriptor.
\* fields(dataclass)[0] of a dataclass without fields is an index out of range.
descriptor_init(dataclass, primary_key) ==
    IF ~dataclass.is_dataclass
      THEN [raised |-> Some(<<"ValueError",
                              ClassRepr(dataclass) \o " is not a dataclass">>),
            table_name |-> None, primary_key |-> None]
    ELSE IF primary_key = << >> /\ dataclass.fields = << >>
      THEN [raised |-> Some(<<"IndexError", "tuple index out of range">>),
            table_name |-> None, primary_key |-> None]
    ELSE [raised |-> None,
          table_name |-> Some(Lower(dataclass.name)),
          primary_key |-> Some(IF primary_key = << >>
                                 THEN <<dataclass.fields[1].name>>
                                 ELSE primary_key)]

AInit ==
    /\ input \in [dataclass : AClasses, primary_key : APrimaryKeys]
    /\ output = None
    /\ members = [c \in Containers |-> {}]
    /\ candidates = << >> /\ done = {} /\ ignore = {}
    /\ mip_pc = "end" /\ mip_idx = 1 /\ mip_seen = {}
    /\ seen = {} /\ queue = << >> /\ queued = {} /\ stack = << >>
    /\ appended = << >>
    /\ item_count = 0 /\ cur_module = None
    /\ houdini_modules = {} /\ houdini_module_data = << >>
    /\ foreign_keys = TRUE /\ in_txn = FALSE /\ uncommitted = 0
    /\ committed = Tables({}, << >>) /\ pending = {} /\ crash_points = << >>
    /\ at_yield = None /\ consumer = "drain" /\ db_path = FALSE /\ hou_init = "no"
    /\ categories = << >>
    /\ error = "none"
    /\ received = << >> /\ pass = 10 /\ tape = << >> /\ snapshot = << >>
    /\ stored = None
    /\ host = Host(None) /\ iow = None /\ imports = << >>
    /\ fs = NoFiles /\ paths = << >> /\ path_idx = 1 /\ found = << >>
    /\ NoMock

\* AnalysisTableDescriptor(dataclass, primary_key=primary_key)
DescriptorInit ==
    /\ pass = 10 /\ IsNone(output)
    /\ output' = Some(descriptor_init(input.dataclass, input.primary_key))
    /\ UNCHANGED input
    /\ UNCHANGED <<envvars, walkvars, dbvars, received, pass, tape, snapshot,
                   stored, hostvars, scanvars, mockvars>>

ANext == DescriptorInit

ASpec == AInit /\ [][ANext]_vars

(***************************************************************************)
(* The writer over one long stream: the records of a module with many      *)
(* entities, written into a new database.  No history is kept.             *)
(***************************************************************************)
\* The largest item_count a module of the stream reaches.
MaxItems == 201

\* The records of the long stream: module "a" opened (again), its root
\* entity, and a class of it.
LInputs ==
    { ModuleData("a", None, None, None),
      HoudiniStaticData("a", "MODULE", "module", None, None),
      HoudiniStaticData("K", "CLASS", "type", Some("a"), Some("MODULE")) }

LInit ==
    /\ members = [c \in Containers |-> {}]
    /\ candidates = << >> /\ done = {} /\ ignore = {}
    /\ mip_pc = "end" /\ mip_idx = 1 /\ mip_seen = {}
    /\ seen = {} /\ queue = << >> /\ queued = {} /\ stack = << >>
    /\ appended = << >>
    /\ item_count = 0 /\ cur_module = None
    /\ houdini_modules = {} /\ houdini_module_data = << >>
    /\ foreign_keys = TRUE /\ in_txn = FALSE /\ uncommitted = 0
    /\ committed = Tables({}, << >>) /\ pending = {} /\ crash_points = << >>
    /\ at_yield = None /\ consumer = "drain" /\ db_path = FALSE /\ hou_init = "no"
    /\ categories = << >>
    /\ error = "none"
    /\ received = << >> /\ pass = 8 /\ tape = << >> /\ snapshot = << >>
    /\ stored = None
    /\ host = Host(None) /\ iow = None /\ imports = << >>
    /\ fs = NoFiles /\ paths = << >> /\ path_idx = 1 /\ found = << >>
    /\ NoMock /\ NoInput

\* for item in stream: writer(item)
LFeed ==
    /\ pass = 8 /\ error = "none" /\ IsNone(at_yield)
    /\ item_count < MaxItems
    /\ \E datum \in LInputs : CallWriter(datum)
    /\ UNCHANGED <<envvars, walkvars, received, pass, tape, snapshot, stored,
                   hostvars, scanvars, mockvars, purevars>>

LNext == LFeed \/ WriterResume

LSpec == LInit /\ [][LNext]_vars

(***************************************************************************)
(* Properties.  The stream `received` is the sequence of records the       *)
(* walker emitted, which is the sequence the writer was called with.       *)
(***************************************************************************)
IsModuleData(i) == received[i].rec = "ModuleData"
IsStaticData(i) == received[i].rec = "HoudiniStaticData"
\* record i is a ModuleData with null status: it opens its module
Opens(i) == IsModuleData(i) /\ IsNone(received[i].status)
\* index of the last ModuleData before position p, 0 if there is none
PrevModuleData(p) ==
    LET S == { i \in 1..(p - 1) : IsModuleData(i) }
    IN  IF S = {} THEN 0 ELSE CHOOSE i \in S : \A j \in S : j <= i
\* index of the first ModuleData after position i, Len + 1 if there is none
NextModuleData(i) ==
    LET S == { j \in (i + 1)..Len(received) : IsModuleData(j) }
    IN  IF S = {} THEN Len(received) + 1 ELSE CHOOSE j \in S : \A k \in S : j <= k
\* number of entities received between record i and the next ModuleData
EntitiesAfter(i) ==
    Cardinality({ p \in (i + 1)..(NextModuleData(i) - 1) : IsStaticData(p) })
\* no ModuleData of the same name follows record i
LastOfName(i) ==
    \A j \in (i + 1)..Len(received) :
        IsModuleData(j) => received[j].name # received[i].name
ModuleRow(name) == CHOOSE r \in houdini_modules : r.name = name
ClassTypes == {"CLASS", "ENUM", "ENUMTYPE"}

RECURSIVE BelongsTo(_, _)
\* Entity p, in the span opened by ModuleData i, belongs to that module: it is
\* the module's own MODULE entity, or its parent is that entity, or its parent
\* is a class entity of the same span that belongs to the module.
BelongsTo(p, i) ==
    LET r == received[p]
        M == received[i].name
    IN  IF r.type = "MODULE" THEN r.name = M
        ELSE /\ ~IsNone(r.parent_name)
             /\ \E q \in (i + 1)..(p - 1) :
                  /\ IsStaticData(q)
                  /\ received[q].name = r.parent_name[1]
                  /\ received[q].type = r.parent_type[1]
                  /\ IF r.parent_type[1] = "MODULE" THEN r.parent_name[1] = M
                     ELSE r.parent_type[1] \in ClassTypes /\ BelongsTo(q, i)

\* C1: every HoudiniStaticData emitted between a ModuleData with null status
\* for module M and the next ModuleData belongs to M: it is M's MODULE entity
\* or its parent chain, through classes of the same span, ends at M's MODULE
\* entity; no entity of another module appears in the span.
C1_ModuleItemAlternation ==
    \A p \in 1..Len(received) :
        (IsStaticData(p) /\ PrevModuleData(p) > 0 /\ Opens(PrevModuleData(p)))
            => BelongsTo(p, PrevModuleData(p))

\* Witness of C1: the run is over; a module found as a member during another
\* module's scan was walked after it, and a class of a module emitted a member.
C1_Witness ==
    /\ mip_pc = "end"
    /\ \E p \in 1..Len(received) :
         /\ IsStaticData(p) /\ received[p].type = "MODULE"
         /\ ~IsNone(received[p].parent_name)
    /\ \E p \in 1..Len(received) :
         /\ IsStaticData(p) /\ ~IsNone(received[p].parent_type)
         /\ received[p].parent_type[1] \in ClassTypes

\* C2: over one run, each module or class object is emitted as an entity at
\* most once and each module is opened (ModuleData with null status) at most
\* once.  (Module and class objects of the model have distinct names, so the
\* name and type of an entity identify the object.)
C2_NoDuplicateVisit ==
    \A i, j \in 1..Len(received) :
        i < j =>
          /\ ~(/\ IsStaticData(i) /\ IsStaticData(j)
               /\ received[i].type \in ClassTypes \cup {"MODULE"}
               /\ received[i].type = received[j].type
               /\ received[i].name = received[j].name)
          /\ ~(Opens(i) /\ Opens(j) /\ received[i].name = received[j].name)

\* C3: once a module is finalized (status 'OK'), the count of its row is the
\* number of entities received between its opening ModuleData and the next
\* ModuleData, also after later records, IGNORE and failure records included.
C3_CountIsItemsOfModule ==
    \A i \in 1..Len(received) :
        (/\ Opens(i) /\ LastOfName(i)
         /\ ModuleRow(received[i].name).status = Some("OK"))
            => ModuleRow(received[i].name).count = Some(EntitiesAfter(i))

\* C4: a row gets status 'OK' only after the ModuleData that follows the
\* module's opening record was received, and while a module is the writer's
\* current open module its stored status is null (for a consumer that runs
\* each generator of the writer to its end).
C4_OpenModuleHasNullStatus ==
    (pass = 1 /\ consumer = "drain") =>
      /\ \A r \in houdini_modules :
           r.status = Some("OK") =>
             \E i, j \in 1..Len(received) :
                i < j /\ Opens(i) /\ received[i].name = r.name /\ IsModuleData(j)
      /\ ~IsNone(cur_module) => IsNone(ModuleRow(cur_module[1].name).status)

\* C5: once the whole stream is consumed and the run has ended, every module
\* opened with null status has a row with non-null status and non-null count,
\* the last module opened included.
C5_EveryOpenedModuleFinalized ==
    (pass = 0 /\ mip_pc = "end" /\ stack = << >>) =>
        \A i \in 1..Len(received) :
            Opens(i) => /\ ~IsNone(ModuleRow(received[i].name).status)
                        /\ ~IsNone(ModuleRow(received[i].name).count)

\* C6: a ModuleData with an exception status received for the module that is
\* open is recorded: the row keeps the failure status and reason after all
\* later records, ModuleData of other modules included (for a consumer that
\* runs each generator of the writer to its end).
C6_FailureOfOpenModuleKept ==
    \A i \in 2..Len(received) :
        (/\ consumer = "drain" /\ IsNone(at_yield)
         /\ IsModuleData(i) /\ IsException(received[i].status)
         /\ PrevModuleData(i) > 0 /\ Opens(PrevModuleData(i))
         /\ received[PrevModuleData(i)].name = received[i].name
         /\ LastOfName(i))
            => /\ ModuleRow(received[i].name).status = Some(received[i].status[1])
               /\ ModuleRow(received[i].name).reason = Some(received[i].status[2])

\* C7: for a module name in the done set a run emits no ModuleData and no
\* HoudiniStaticData: neither the module's entity nor a member of it, however
\* the module is reached.
C7_NothingEmittedForDone ==
    \A i \in 1..Len(received) :
        /\ IsModuleData(i) => received[i].name \notin done
        /\ IsStaticData(i) =>
             /\ received[i].type = "MODULE" => received[i].name \notin done
             /\ (~IsNone(received[i].parent_type)
                    /\ received[i].parent_type[1] = "MODULE")
                  => received[i].parent_name[1] \notin done

\* Witness of C7: a module whose name is in done was reached as a nested
\* member (it was handed to _load_module, which marks it seen) in a run that
\* emitted records.
C7_Witness ==
    /\ mip_pc = "end" /\ received # << >>
    /\ \E m \in seen : ObjName(m) \in done

\* the generator of get_stored_modules has ended
StoredEnded == ~IsNone(stored) /\ stored[1].pc = "end"
\* the names the generator has yielded
Yielded == { stored[1].names[i] : i \in 1..Len(stored[1].names) }
\* the names of the rows of T with status 'OK'
OKNames(T) == { r.name : r \in { x \in T : x.status = Some("OK") } }

\* C8: with successful=True and failed=False get_stored_modules, run to its
\* end, has yielded exactly the names of the rows whose status is 'OK' in the
\* table its query read, each once (the table of the database when the
\* consumer has written nothing before the query); rows with null status,
\* IGNORE or a failure status are not yielded.
C8_StoredModulesAreOK ==
    (/\ StoredEnded /\ stored[1].successful /\ ~stored[1].failed
     /\ stored[1].exists /\ stored[1].fault = "none") =>
        /\ ~IsNone(stored[1].first)
        /\ Yielded = OKNames(stored[1].first[1])
        /\ Len(stored[1].names) = Cardinality(Yielded)
        /\ stored[1].writes = 0 => Yielded = OKNames(houdini_modules)

\* Witness of C8: the default call has run to its end on a table that holds
\* a row with status 'OK', a row with null status and a row with another
\* status.
C8_Witness ==
    /\ StoredEnded /\ stored[1].successful /\ ~stored[1].failed
    /\ stored[1].exists /\ stored[1].fault = "none" /\ stored[1].writes = 0
    /\ stored[1].names # << >>
    /\ \E r \in houdini_modules : r.status = Some("OK")
    /\ \E r \in houdini_modules : IsNone(r.status)
    /\ \E r \in houdini_modules : ~IsNone(r.status) /\ r.status # Some("OK")

\* number of rows of table T equal to row
RowCount(T, row) == Cardinality({ i \in 1..Len(T) : T[i] = row })
\* the two tables hold the same rows, each the same number of times
SameRows(T, U) ==
    /\ Len(T) = Len(U)
    /\ \A i \in 1..Len(T) : RowCount(T, T[i]) = RowCount(U, T[i])

\* C9: writing the same stream twice into the same database leaves
\* houdini_module_data with exactly the rows it has after writing it once.
C9_SecondWriteIdempotent ==
    pass = 3 => SameRows(houdini_module_data, snapshot)

\* Witness of C9: both passes are finished, and the stream wrote one primary
\* key twice with different parents.
C9_Witness ==
    /\ pass = 3 /\ Len(snapshot) >= 2
    /\ \E i, j \in 1..Len(tape) :
         /\ i < j
         /\ tape[i].rec = "HoudiniStaticData" /\ tape[j].rec = "HoudiniStaticData"
         /\ tape[i].name = tape[j].name /\ tape[i].type = tape[j].type
         /\ tape[i].parent_name # tape[j].parent_name

\* C10: after every writer call on a stream of the walker, every row of
\* houdini_module_data with a non-null parent_name has exactly one row whose
\* (name, type) is its (parent_name, parent_type).
C10_ParentRowExistsOnce ==
    \A i \in 1..Len(houdini_module_data) :
        ~IsNone(houdini_module_data[i].parent_name) =>
            Cardinality({ j \in 1..Len(houdini_module_data) :
                /\ houdini_module_data[j].name = houdini_module_data[i].parent_name[1]
                /\ houdini_module_data[j].type = houdini_module_data[i].parent_type[1] }) = 1

\* Witness of C10: the table holds a member of a class, and the class was
\* written twice (the second write replaced its row).
C10_Witness ==
    /\ \E i \in 1..Len(houdini_module_data) :
         /\ ~IsNone(houdini_module_data[i].parent_type)
         /\ houdini_module_data[i].parent_type[1] \in ClassTypes
    /\ \E i, j \in 1..Len(received) :
         /\ i < j /\ IsStaticData(i) /\ IsStaticData(j)
         /\ received[i].type \in ClassTypes
         /\ received[i].name = received[j].name /\ received[i].type = received[j].type

(***************************************************************************)
(* Properties of the guarded import.  `imports` holds one entry per call   *)
(* of import_or_warn with a name: the candidate's index, the length of the *)
(* stream at the call, the host state before the call, the items yielded,  *)
(* the exception that left the generator, and the host state once the      *)
(* generator was consumed to its end.                                      *)
(***************************************************************************)
\* the import of entry i produced a module
ImportedModule(i) ==
    /\ ~IsNone(import_module(imports[i].name))
    /\ import_module(imports[i].name)[1] \in Modules
\* the item of entry i is a failure record for the entry's name
FailureItem(i) ==
    /\ imports[i].items # << >>
    /\ imports[i].items[1].kind = "ModuleData"
    /\ imports[i].items[1].md.name = imports[i].name
    /\ IsException(imports[i].items[1].md.status)
\* the exceptions an import of the model raises
ImportErrors == {"ModuleNotFoundError", "RuntimeError", "TypeError", "SystemExit",
                 "KeyboardInterrupt"}
\* reject_name lets the candidate through to import_or_warn as a name
Accepted(name) == name \notin done /\ ~StartsWithZabob(name) /\ name \notin ignore
\* an exception of an import ended the run: import_or_warn is called in the
\* pass over the candidates only
ImportEndedRun == mip_pc = "path" /\ error \in ImportErrors
\* discovery is past candidate j
Past(j) == mip_pc # "path" \/ mip_idx > j

\* C11: every call of import_or_warn with a candidate name yields exactly one
\* item, the imported module when the import succeeds with a module and
\* otherwise a ModuleData failure record for the name; no exception of the
\* import (an exception raised by the module, an attempt of the module to
\* end the process, a result that is not a module) leaves the generator or
\* ends the run.
C11_ImportOrWarnYieldsOne ==
    /\ ~ImportEndedRun
    /\ \A i \in 1..Len(imports) :
         /\ IsNone(imports[i].raised)
         /\ Len(imports[i].items) = 1
         /\ IF ImportedModule(i)
              THEN imports[i].items[1] = ItemModule(import_module(imports[i].name)[1])
              ELSE FailureItem(i)

IgnoredCandidate(j) ==
    /\ candidates[j] \in ignore /\ candidates[j] \notin done
    /\ ~StartsWithZabob(candidates[j])
\* ModuleData(name, file, status='IGNORE', reason=ignore[name])
IgnoreRecord(name) == ModuleData(name, None, Some("IGNORE"), Some(IgnoreReason(name)))
\* the positions of the ModuleData records for a name
RecordsOf(name) == { p \in 1..Len(received) : IsModuleData(p) /\ received[p].name = name }
\* the occurrences of a name among the candidates discovery is past
PastOccurrences(name) == { j \in 1..Len(candidates) : Past(j) /\ candidates[j] = name }
\* the calls of _load_module the run makes for a module of that name: one as
\* a root when the pass over sys.modules yields it, one when it is queued as
\* a member
WalkerCalls(name) ==
    Cardinality({ m \in Modules \cap mip_seen : ObjName(m) = name })
      + Cardinality({ m \in Modules \cap queued : ObjName(m) = name })

\* C13: once discovery is past a candidate whose name is in the ignore
\* mapping and not in done, the stream holds exactly one ModuleData for the
\* name, it has status 'IGNORE' and the mapping's reason, and import_module
\* was never called for the name.
C13_OneIgnoreRecord ==
    \A j \in 1..Len(candidates) :
        (Past(j) /\ IgnoredCandidate(j))
          => /\ Cardinality(RecordsOf(candidates[j])) = 1
             /\ \A p \in RecordsOf(candidates[j]) :
                  received[p] = IgnoreRecord(candidates[j])
             /\ \A i \in 1..Len(imports) : imports[i].name # candidates[j]

\* C13 as amended: import_module is never called for the name, and every
\* ModuleData for the name is the IGNORE record with the mapping's reason.
\* The candidate step emits it once for each occurrence of the name among
\* the candidates, and _load_module emits it once more for each call the
\* walker makes for the module of that name (as a root of the pass over
\* sys.modules, as a queued member): when the run is over the stream holds
\* exactly that many, so exactly one for a name that is a candidate once and
\* whose module the walker does not reach.
C13_IgnoredCandidateNotImported ==
    \A j \in 1..Len(candidates) :
        (Past(j) /\ IgnoredCandidate(j))
          => LET name == candidates[j]
                 n == Cardinality(RecordsOf(name))
                 c == Cardinality(PastOccurrences(name))
             IN  /\ \A p \in RecordsOf(name) : received[p] = IgnoreRecord(name)
                 /\ \A i \in 1..Len(imports) : imports[i].name # name
                 /\ c <= n /\ n <= c + WalkerCalls(name)
                 /\ (mip_pc = "end" /\ stack = << >> /\ error = "none")
                      => n = c + WalkerCalls(name)
                 /\ (c = 1 /\ WalkerCalls(name) = 0) => n = 1

\* Witness of C13: the run is over and another candidate was imported; the
\* name of an ignored candidate has one record for each of its two
\* occurrences and one more from the walker.
C13_Witness ==
    /\ mip_pc = "end" /\ imports # << >>
    /\ \E j \in 1..Len(candidates) :
         /\ IgnoredCandidate(j)
         /\ Cardinality(PastOccurrences(candidates[j])) = 2
         /\ Cardinality(RecordsOf(candidates[j])) >= 3

\* C15: once an import_or_warn generator has been consumed to its end,
\* sys.exit, atexit.register, atexit.unregister and the environment variable
\* HOUDINI_ENABLE_HOM_EXTENSIONS have the values they had before the call,
\* whether the import gave a module, raised or called sys.exit.
C15_HostStateRestored ==
    \A i \in 1..Len(imports) :
        ~IsNone(imports[i].after) => imports[i].after[1] = imports[i].before

\* Witness of C15: a generator that yielded a module whose import changed the
\* environment variable (set before the call) and sys.exit was consumed, and
\* so was one whose module called sys.exit.
C15_Witness ==
    /\ \E i \in 1..Len(imports) :
         /\ ImportedModule(i) /\ ~IsNone(imports[i].after)
         /\ ~IsNone(imports[i].before.environ)
         /\ ImportEffect(imports[i].name, imports[i].before) # imports[i].before
    /\ \E i \in 1..Len(imports) :
         /\ FailureItem(i) /\ ~IsNone(imports[i].after)
         /\ imports[i].items[1].md.status = exit_handler("1")

\* C16: a function found as a member of a class is recorded as METHOD
\* whenever the entity enclosing it is a CLASS; so a plain function defined
\* in a class that is a direct public member of a module is recorded with
\* kind METHOD and parent (C, CLASS).
C16_ClassFunctionIsMethod ==
    \A p \in 1..Len(received) :
        (/\ IsStaticData(p) /\ received[p].datatype = "function"
         /\ received[p].parent_type = Some("CLASS"))
            => received[p].type = "METHOD"

\* C17: when import_module is called for a candidate name, the writer has
\* already received a ModuleData record for that name.
C17_RecordBeforeImport ==
    \A i \in 1..Len(imports) :
        \E p \in 1..imports[i].at :
            IsModuleData(p) /\ received[p].name = imports[i].name

\* the walker opened at p a module it had reached as a member of another
\* module: a null status ModuleData followed by a MODULE entity with a parent
OpensMember(p) ==
    /\ Opens(p) /\ p < Len(received)
    /\ IsStaticData(p + 1) /\ received[p + 1].type = "MODULE"
    /\ ~IsNone(received[p + 1].parent_name)
\* call i is the first call of import_module for its name
FirstImport(i) == \A k \in 1..(i - 1) : imports[k].name # imports[i].name

\* C17 as amended: import_module is called for an accepted candidate before
\* the candidate's record is emitted.  At the first call for a name the
\* writer has received no ModuleData for the name, except the null status
\* record of a module the walker had already reached as a member of another
\* module.  A failed import that import_or_warn catches is recorded by the
\* next record of the stream, a successful first import is followed by the
\* null status record of _load_module unless the name is in the done set of
\* the walker, and at a later call for the same name (a name that is a
\* candidate more than once) the only other records of the name are those
\* that followed the earlier calls.
C17_RecordAfterImport ==
    \A i \in 1..Len(imports) :
        /\ \A p \in 1..imports[i].at :
             (IsModuleData(p) /\ received[p].name = imports[i].name)
               => \/ OpensMember(p)
                  \/ \E k \in 1..(i - 1) :
                        /\ imports[k].name = imports[i].name
                        /\ p = imports[k].at + 1
                        /\ IF ImportedModule(k)
                             THEN Opens(p) /\ FirstImport(k)
                             ELSE received[p] = imports[k].items[1].md
        /\ FailureItem(i) =>
             /\ Len(received) > imports[i].at
             /\ received[imports[i].at + 1] = imports[i].items[1].md
        /\ (~ImportedModule(i) /\ ~FailureItem(i)) =>
             /\ imports[i].items = << >> /\ ~IsNone(imports[i].raised)
             /\ Len(received) = imports[i].at

\* Witness of C17: one import was called with no record for its name in the
\* stream, one for a module already walked as a member, one failed, and one
\* was the second call for a name whose module had been walked as a root
\* after the first.
C17_Witness ==
    /\ \E i \in 1..Len(imports) :
         /\ ImportedModule(i)
         /\ \A p \in 1..imports[i].at : received[p].name # imports[i].name
    /\ \E i \in 1..Len(imports) :
         \E p \in 1..imports[i].at :
             OpensMember(p) /\ received[p].name = imports[i].name
    /\ \E i \in 1..Len(imports) : FailureItem(i)
    /\ \E i, k \in 1..Len(imports) :
         /\ k < i /\ imports[k].name = imports[i].name /\ ImportedModule(k)
         /\ Opens(imports[k].at + 1) /\ ~OpensMember(imports[k].at + 1)

\* C18: given an open connection, get_stored_modules does not raise because
\* of a database error in one of its queries: the generator ends normally and
\* has yielded the names it yielded before the error and no others; when the
\* houdini_modules table does not exist it yields no names.
C18_DatabaseErrorCaught ==
    (/\ ~IsNone(stored)
     /\ \/ stored[1].db = "connection"
        \/ stored[1].db = "path" /\ stored[1].fault # "connect") =>
      /\ IsNone(stored[1].raised)
      /\ stored[1].fault \in {"check", "first"} => stored[1].names = << >>
      /\ (StoredEnded /\ stored[1].fault = "second") =>
           Yielded = IF stored[1].successful THEN OKNames(stored[1].first[1])
                                            ELSE {}
      /\ ~stored[1].exists => stored[1].names = << >>

\* Witness of C18: a call with both flags met a database error in its second
\* query after it had yielded the names of the first.
C18_Witness ==
    /\ StoredEnded /\ stored[1].fault = "second"
    /\ stored[1].db = "connection"
    /\ stored[1].successful /\ stored[1].names # << >>
    /\ \E r \in houdini_modules : r.status # Some("OK")

\* C19: with failed=True get_stored_modules, run to its end, has yielded the
\* name of every row whose status is not 'OK' in the table its query read,
\* the rows whose status is null included.
C19_FailedIncludesNullStatus ==
    (/\ StoredEnded /\ stored[1].failed
     /\ stored[1].exists /\ stored[1].fault = "none") =>
        \A r \in stored[1].second[1] :
            r.status # Some("OK") => r.name \in Yielded

(***************************************************************************)
(* Properties of the directory scan.                                       *)
(***************************************************************************)
\* candidate i is a package: its origin is a directory
IsPackageCandidate(i) == found[i].file \in DOMAIN fs
\* the directory that holds the origin of candidate i
ParentDir(i) == SubSeq(found[i].file, 1, Len(found[i].file) - 1)

\* C14: in the sequence candidates_in_dir yields for a directory, every
\* package candidate P, found in the directory or one level down in a
\* namespace directory, comes after the candidates "P.<module>" of the
\* package, and there is one for every file of the package with suffix .py
\* other than __init__.py and __main__.py.
C14_SubmodulesBeforePackage ==
    \A i \in 1..Len(found) :
        IsPackageCandidate(i) =>
          /\ \A j \in 1..Len(found) :
               (/\ found[j].scan = found[i].scan /\ ~IsPackageCandidate(j)
                /\ ParentDir(j) = found[i].file)
                 => j < i
          /\ \A k \in 1..Len(fs[found[i].file]) :
               LET e == fs[found[i].file][k]
               IN  (/\ ~e.dir /\ e.suffix = ".py"
                    /\ e.name \notin {"__init__.py", "__main__.py"})
                     => \E j \in 1..(i - 1) :
                          /\ found[j].scan = found[i].scan
                          /\ found[j].name = found[i].name \o "." \o e.stem
                          /\ found[j].file = Append(found[i].file, e.name)

\* Witness of C14: one scan yielded a package of the directory with two
\* submodules and a package found in a namespace directory with a submodule.
C14_Witness ==
    /\ \E i, j, k \in 1..Len(found) :
         /\ j < k /\ k < i /\ found[i].name = "P"
         /\ found[j].name = "P.s" /\ found[k].name = "P.t"
    /\ \E i, j \in 1..Len(found) :
         found[i].name = "N.Q" /\ found[j].name = "N.Q.t" /\ j < i

\* C20: no candidate that gets through the directory scan of modules_in_path
\* (candidates_in_dir, then reject_name) has its origin inside ZABOB_ROOT,
\* whatever the search paths are: ZABOB_ROOT itself, a directory that
\* contains it, or a directory inside it.
C20_NoCandidateInsideZabobRoot ==
    \A i \in 1..Len(found) :
        found[i].accepted => ~InParents(ZABOB_ROOT, found[i].file)

(***************************************************************************)
(* InfiniteMock                                                            *)
(***************************************************************************)
\* The attributes every instance of the class has without __getattr__ that
\* are not in _no_mock: those the class statement gives the class, and those
\* of the bases ModuleType and object.
PlainObjectNames ==
    { "__annotations__", "__class__", "__delattr__", "__dict__", "__dir__",
      "__doc__", "__eq__", "__format__", "__ge__", "__getattribute__",
      "__getstate__", "__gt__", "__hash__", "__init__", "__init_subclass__",
      "__le__", "__lt__", "__module__", "__ne__", "__new__", "__reduce__",
      "__reduce_ex__", "__sizeof__", "__subclasshook__" }
\* The names of _no_mock that neither the class nor __init__ defines.
MissingNames == { "in_traceback", "_path_", "__path_" }
\* the value the instance dictionary of m has for the name is true
IsSet(m, name) == name \in DOMAIN m.attrs /\ m.attrs[name] = Value("bool", TRUE)
\* r is an InfiniteMock with the given path
IsMockNamed(r, path) ==
    /\ r.kind = "InfiniteMock"
    /\ r.attrs["__name__"] = Value("str", path)
\* the access recorded is an attribute, item or call access
IsAccess == mock_step # None /\ mock_step[1].op \in {"getattr", "getitem", "call"}

\* C21 as stated: every attribute access (any name), every item access and
\* every call on an InfiniteMock returns another InfiniteMock, so that no
\* access of a chain raises AttributeError.
C21_EveryAccessReturnsMock ==
    IsAccess => mock_result[1].kind = "InfiniteMock"

\* C21 amended: every item access and every call returns an InfiniteMock
\* named after the access, and so does every attribute access, except that
\* a name the ordinary lookup finds (in the instance dictionary, in the
\* class, in the bases ModuleType and object) gives that attribute, which is
\* not a mock; a name of _no_mock the object does not have raises
\* AttributeError; colorFromName and __mro_entries__ give a function,
\* __qualname__ the path of the mock and __file__ None; and `this` gives the
\* path string once _in_traceback_ has been set true on the object.  So a
\* chain of accesses with other names never raises.
C21_OrdinaryAccessReturnsMock ==
    IsAccess =>
        LET st == mock_step[1]
            r == mock_result[1]
            path == st.on.attrs["__name__"].value
        IN  /\ st.op = "getitem" => IsMockNamed(r, path \o "[" \o st.arg \o "]")
            /\ st.op = "call" => IsMockNamed(r, path \o "()")
            /\ st.op = "getattr" =>
                 IF st.arg \in PlainObjectNames
                   THEN /\ r.kind \notin {"InfiniteMock", "raise", "NoneType"}
                        /\ st.arg \in {"__doc__", "__module__"} => r.kind = "str"
                        /\ st.arg \in {"__annotations__", "__dict__"} => r.kind = "dict"
                        /\ st.arg = "__class__" => r = Value("type", "InfiniteMock")
                 ELSE IF st.arg \in DOMAIN st.on.attrs
                   THEN r = st.on.attrs[st.arg]
                 ELSE IF st.arg \in MissingNames
                   THEN r = Raise("AttributeError")
                 ELSE IF st.arg \in no_mock
                   THEN r = IF st.arg = "_in_traceback_" THEN Value("bool", FALSE)
                            ELSE Value("method", st.arg)
                 ELSE IF st.arg \in {"colorFromName", "__mro_entries__"}
                   THEN r.kind = "function"
                 ELSE IF st.arg = "__qualname__" THEN r = Value("str", path)
                 ELSE IF st.arg = "__file__" THEN r.kind = "NoneType"
                 ELSE IF st.arg = "this" /\ IsSet(st.on, "_in_traceback_")
                   THEN r = Value("str", path \o ".this")
                 ELSE IsMockNamed(r, path \o "." \o st.arg)

\* The chain hou.ui.someWidget.someMethod() has been followed to its call.
C21_Witness ==
    /\ mock_depth = 2 /\ mock_step # None
    /\ mock_step[1].op = "call"
    /\ IsMockNamed(mock_result[1], "hou.ui.someWidget.someMethod()")

\* Second witness of C21: `this` was accessed twice on a mock and gave a mock
\* both times, the flag _in_traceback_ was then set, and the third access
\* gave the path string.
C21_WitnessThis ==
    /\ mock_step # None /\ mock_step[1].op = "getattr" /\ mock_step[1].arg = "this"
    /\ IsSet(mock, "in_traceback") /\ IsSet(mock, "_in_traceback_")
    /\ mock_result[1] = Value("str", "hou.ui.this")

(***************************************************************************)
(* The row of a failed import                                              *)
(***************************************************************************)
\* record p of the stream is the failure record of an import
FailureRecord(p) == IsModuleData(p) /\ IsException(received[p].status)

\* C22 as stated: the houdini_modules row stored for a failed import has the
\* stringified exception as its status ("boom" for RuntimeError("boom")).
C22_StoredStatusIsMessage ==
    \A p \in 1..Len(received) :
        (FailureRecord(p) /\ error = "none") =>
            ModuleRow(received[p].name).status = Some(received[p].status[2])

\* C22 amended: the row stored for a failed import has the name of the
\* exception's type as its status and the stringified exception as its
\* reason ('RuntimeError' and "boom" for RuntimeError("boom")).
C22_StoredStatusIsTypeName ==
    \A p \in 1..Len(received) :
        (FailureRecord(p) /\ error = "none") =>
            /\ \E r \in houdini_modules : r.name = received[p].name
            /\ ModuleRow(received[p].name).status = Some(received[p].status[1])
            /\ ModuleRow(received[p].name).reason = Some(received[p].status[2])
            /\ received[p].status[1] # received[p].status[2]

\* A finished run stored the rows of an import that raised RuntimeError and
\* of one that raised ModuleNotFoundError.
C22_Witness ==
    /\ mip_pc = "end" /\ stack = << >> /\ error = "none"
    /\ \E p, q \in 1..Len(received) :
         /\ FailureRecord(p) /\ received[p].status[1] = "RuntimeError"
         /\ ModuleRow(received[p].name).status = Some("RuntimeError")
         /\ FailureRecord(q) /\ received[q].status[1] = "ModuleNotFoundError"
         /\ ModuleRow(received[q].name).reason = Some("No module named 'x'")

(***************************************************************************)
(* The name EnumValue                                                      *)
(***************************************************************************)
\* C23: every entity whose name is exactly "EnumValue" is recorded with type
\* CLASS, in the stream and in the table, never ENUM, whatever type the
\* walker gave it before _mk_datum (the class hou.EnumValue itself, which
\* _load_class takes for an enum, included).
C23_EnumValueIsClass ==
    /\ \A p \in 1..Len(received) :
          (IsStaticData(p) /\ received[p].name = "EnumValue") => received[p].type = "CLASS"
    /\ \A k \in 1..Len(houdini_module_data) :
          houdini_module_data[k].name = "EnumValue" => houdini_module_data[k].type = "CLASS"

\* The class hou.EnumValue, which _load_class classifies as ENUM, has been
\* recorded and stored.
C23_Witness ==
    /\ ClassType("ev") = "ENUM"
    /\ \E p \in 1..Len(received) :
          /\ IsStaticData(p) /\ received[p].name = "EnumValue"
          /\ received[p].parent_name = Some("a")
    /\ \E k \in 1..Len(houdini_module_data) : houdini_module_data[k].name = "EnumValue"

(***************************************************************************)
(* datatype and docstring of a value                                       *)
(***************************************************************************)
\* the name of the value's type contains "tuple" or "Tuple"
TupleNamed(v) ==
    \E m \in {"tuple", "Tuple"} :
        v.type.name \in { a \o m \o b : a \in NamePrefixes, b \in NameSuffixes }

\* C24: for a value whose type name contains "tuple" or "Tuple" the datatype
\* stored is exactly "tuple"; for every other value it is the name of the
\* value's own type.
C24_TupleNormalization ==
    ~IsNone(output) =>
        output[1].datatype = IF TupleNamed(input) THEN "tuple" ELSE input.type.name

\* A named tuple type has been stored as "tuple".
C24_Witness ==
    /\ ~IsNone(output)
    /\ input.type.name = "namedTuple_t"
    /\ output[1].datatype = "tuple"

\* The text of the documentation strings of the model without their
\* indentation and their blank first and last lines, as the interpreter's
\* inspect.cleandoc prints it.
CleanText(raw) ==
    CASE raw = << Line(3, "") >> -> << Line(0, "") >>
      [] raw = << Line(2, "hi") >> -> << Line(0, "hi") >>
      [] raw = << Line(0, ""), Line(4, "hi"), Line(4, "") >> -> << Line(0, "hi") >>
      [] raw = << Line(0, "hi"), Line(2, ""), Line(4, "there"), Line(2, "end") >>
           -> << Line(0, "hi"), Line(0, ""), Line(2, "there"), Line(0, "end") >>
      [] OTHER -> raw
\* The documentation string of an object: the text of its own __doc__, or
\* without one the text of the documentation found on its bases.
DocumentationString(own, bases) ==
    IF ~IsNone(own) THEN Some(CleanText(own[1]))
    ELSE IF ~IsNone(bases) THEN Some(CleanText(bases[1]))
    ELSE None

\* C25: with the documentation string of an object being what inspect.getdoc
\* gives for it (the cleaned __doc__, or the one found on its bases), an
\* object whose documentation string is absent, empty, or equal to the
\* documentation string of its type is recorded with a null docstring; every
\* other object is recorded with its own documentation string.
C25_DocSuppression ==
    ~IsNone(output) =>
        LET own == DocumentationString(input.doc, input.inherited)
            parent == DocumentationString(input.type_doc, input.type_inherited)
        IN  output[1].docstring =
                IF IsNone(own) \/ own = Some(<< Line(0, "") >>) \/ own = parent
                  THEN None ELSE own

\* A value whose indented documentation is the one its type inherits from a
\* base has been recorded without it.
C25_Witness ==
    /\ ~IsNone(output)
    /\ input.doc = Some(<< Line(0, ""), Line(4, "hi"), Line(4, "") >>)
    /\ input.type_doc = None
    /\ input.type_inherited = Some(<< Line(2, "hi") >>)
    /\ output[1].docstring = None

(***************************************************************************)
(* The SQL type of a field                                                 *)
(***************************************************************************)
\* The SQL type the claim gives a basic type.
SqlTypeOf(t) ==
    CASE t \in {Class("int"), Class("bool")} -> "INTEGER"
      [] t = Class("float") -> "REAL"
      [] t = Class("str") -> "TEXT"
BasicTypes == { Class("int"), Class("bool"), Class("float"), Class("str") }

\* C26: the type mapping sends int and bool to INTEGER, float to REAL and str
\* to TEXT, not nullable, with a column definition that ends in NOT NULL, and
\* sends T | None to the SQL type of T, nullable, with a column definition
\* that ends in DEFAULT NULL.
C26_BasicTypeMapping ==
    (pass = 7 /\ ~IsNone(output)) =>
        /\ input \in BasicTypes =>
              /\ output[1].sql_type = SqlTypeOf(input)
              /\ ~output[1].nullable
              /\ output[1].col_def = "id " \o SqlTypeOf(input) \o " NOT NULL"
        /\ \A t \in BasicTypes :
              input = UnionTypeOf(<<t, NoneType>>) =>
                /\ output[1].sql_type = SqlTypeOf(t)
                /\ output[1].nullable
                /\ output[1].col_def = "id " \o SqlTypeOf(t) \o " DEFAULT NULL"

(***************************************************************************)
(* Commits of the writer                                                   *)
(***************************************************************************)
\* C27: at every point while the writer runs, the number of INSERTs into
\* houdini_module_data executed since the last commit is at most 100, however
\* many entities a module has.
C27_AtMostHundredUncommitted == uncommitted <= 100

\* The 199th entity of a module has been written: the hundred INSERTs since
\* the commit made at the 100th are pending.
C27_Witness ==
    /\ pass = 8 /\ error = "none"
    /\ item_count = 199 /\ uncommitted = 100 /\ in_txn

(***************************************************************************)
(* The order of the nested modules                                         *)
(***************************************************************************)
\* the ModuleData records emitted for the k-th appended module after it was
\* appended
EmittedFor(k) ==
    { p \in (appended[k].at + 1)..Len(received) :
        IsModuleData(p) /\ received[p].name = ObjName(appended[k].module) }
Walked(k) == EmittedFor(k) # {}
FirstEmitted(k) == CHOOSE p \in EmittedFor(k) : \A q \in EmittedFor(k) : p <= q

\* C28: within the walk of one root the nested modules are walked in the
\* order in which they were appended to the queue: of two appended modules
\* that are both walked, the one appended first has its ModuleData emitted
\* first; the queue always holds the modules appended last, in the order of
\* their appends, none of them walked yet, so that a module discovered while
\* the queue is drained comes after every module already in it.
C28_FifoOrder ==
    /\ \A i, j \in 1..Len(appended) :
          (i < j /\ Walked(i) /\ Walked(j)) => FirstEmitted(i) < FirstEmitted(j)
    /\ Len(queue) <= Len(appended)
    /\ \A i \in 1..Len(queue) :
          LET k == Len(appended) - Len(queue) + i
          IN  queue[i][2] = appended[k].module /\ ~Walked(k)
    /\ \A k \in 1..(Len(appended) - Len(queue)) :
          \A j \in (Len(appended) - Len(queue) + 1)..Len(appended) :
              appended[k].module # appended[j].module

\* Root "a" held "b" and "c"; "d" was discovered in "b" while the queue was
\* drained and "c" was still in it; all three have been walked.
C28_Witness ==
    /\ Len(appended) = 3 /\ queue = << >>
    /\ appended[1].module = "mb" /\ appended[2].module = "mc"
    /\ appended[3].module = "md"
    /\ Walked(1) /\ Walked(2) /\ Walked(3)
    /\ appended[3].at >= FirstEmitted(1)
    /\ appended[3].at < FirstEmitted(2)

(***************************************************************************)
(* Parents in the stream                                                   *)
(***************************************************************************)
\* C29: in the stream analyze_modules emits, every HoudiniStaticData with a
\* parent is preceded by a HoudiniStaticData whose name and type are its
\* parent_name and parent_type.
C29_ParentPrecedes ==
    \A p \in 1..Len(received) :
        (IsStaticData(p) /\ ~IsNone(received[p].parent_name)) =>
            \E q \in 1..(p - 1) :
                /\ IsStaticData(q)
                /\ received[q].name = received[p].parent_name[1]
                /\ Some(received[q].type) = received[p].parent_type

\* The stream holds a nested module whose parent is a class, and a member of
\* a class.
C29_Witness ==
    /\ \E p \in 1..Len(received) :
          /\ IsStaticData(p) /\ received[p].type = "MODULE"
          /\ received[p].parent_type = Some("CLASS")
    /\ \E p \in 1..Len(received) :
          /\ IsStaticData(p) /\ received[p].type = "FUNCTION"
          /\ received[p].parent_type = Some("CLASS")

(***************************************************************************)
(* Termination of a walk                                                   *)
(***************************************************************************)
\* C30: for every object graph, cycles included, the walk of a root
\* terminates (unless the consumer of the stream stopped it with an
\* exception of the writer), and whenever no walk is under way the queue of
\* pending modules is empty.
C30_WalkTerminatesQueueEmpty ==
    /\ [](stack = << >> => queue = << >>)
    /\ (stack # << >>) ~> (stack = << >> \/ error # "none")

\* The run over a cycle of three modules has ended: in the walk of root "b"
\* the modules "c" and "a" were taken from the queue and "b", found again as
\* a member of "a", was not walked again; "b" was walked once more, in the
\* walk of root "a".
C30_Witness ==
    /\ stack = << >> /\ queue = << >> /\ error = "none" /\ mip_pc = "end"
    /\ "ma" \in members["mc"] /\ "mc" \in members["mb"] /\ "mb" \in members["ma"]
    /\ \E p \in 1..Len(received) : Opens(p) /\ received[p].name = "c"
    /\ Cardinality({ p \in 1..Len(received) :
                       IsModuleData(p) /\ received[p].name = "b" }) = 2

\* The states of the database a crash during or after the last writer call
\* leaves, each with the modules whose INSERTs are lost by it.
CrashStates == Append(crash_points, [committed |-> committed, pending |-> pending])

\* C31: in every committed state of the database (the state a crash leaves,
\* after any statement of the writer), a houdini_modules row with status 'OK'
\* belongs to a module none of whose INSERTs into houdini_module_data is
\* still uncommitted: the finalizing UPDATE is never committed before the
\* entities of the module.
C31_OkImpliesEntitiesCommitted ==
    \A i \in 1..Len(CrashStates) :
        \A r \in CrashStates[i].committed.houdini_modules :
            SqlEq(r.status, "OK") => Some(r.name) \notin CrashStates[i].pending

\* A module with two entities or more is committed as 'OK' while the INSERTs
\* of the module that is open now are pending.
C31_Witness ==
    /\ pass = 0
    /\ \E r \in committed.houdini_modules :
          /\ SqlEq(r.status, "OK")
          /\ \E n \in 2..10 : r.count = Some(n)
    /\ pending # {}
    /\ Len(crash_points) = 1

\* C32: foreign-key enforcement is off only around the single INSERT of a
\* parentless entity: once a writer call has completed, PRAGMA foreign_keys
\* of the connection is ON again, so it is ON when the next entity, with or
\* without a parent, is inserted.
C32_ForeignKeysOnAfterCall == error = "none" => foreign_keys = TRUE

\* C33: over a whole run no module is appended to the queue more than once:
\* every module in the queue is in `queued`, the queue never holds a module
\* twice, `queued` never loses a module, and a step that appends to the queue
\* appends a module that was not in `queued` before, so neither a module that
\* is waiting nor one that was popped is appended again.
C33_QueuedAtMostOnce ==
    /\ [](/\ \A i \in 1..Len(queue) : queue[i][2] \in queued
          /\ \A i, j \in 1..Len(queue) : queue[i][2] = queue[j][2] => i = j)
    /\ [][/\ queued \subseteq queued'
          /\ Len(queue') > Len(queue) =>
                /\ queue' = Append(queue, queue'[Len(queue')])
                /\ queue'[Len(queue')][2] \notin queued
                /\ queue'[Len(queue')][2] \in queued']_vars

\* The member loop of a module or class has passed a member module that is
\* waiting in the queue, where another container had put it.
C33_Witness ==
    /\ stack # << >> /\ Top.pc = "members"
    /\ \E i \in 1..Len(get_members_safe(Top.obj)) :
         /\ i < Top.idx
         /\ get_members_safe(Top.obj)[i] \in Modules \cap queued
         /\ \E j \in 1..Len(queue) :
              /\ queue[j][2] = get_members_safe(Top.obj)[i]
              /\ queue[j][1] # Top.data[1]

\* C34: a call of _load_module for a module that is already seen, or whose
\* name is in done, emits nothing and returns; a call for a module that is
\* neither, with its name in ignore, emits exactly one ModuleData with status
\* 'IGNORE' and the reason of the mapping and returns: no HoudiniStaticData is
\* emitted, and the loop over the members is not entered, so that no member is
\* scanned or queued.
C34_SkippedModuleBranches ==
    /\ [][(/\ pass = 0 /\ error = "none" /\ stack # << >>
            /\ Top.fn = "_load_module" /\ Top.pc = "enter")
           => LET module == Top.obj
                  name == ObjName(module)
              IN  /\ (module \in seen \/ name \in done)
                       => /\ received' = received
                          /\ stack' = Pop
                          /\ queue' = queue /\ queued' = queued
                  /\ (module \notin seen /\ name \notin done /\ name \in ignore)
                       => /\ received' = Append(received,
                                            ModuleData(name, None, Some("IGNORE"),
                                                       Some(IgnoreReason(name))))
                          /\ stack' = ReplaceTop([Top EXCEPT !.pc = "ignored"])
                          /\ queue' = queue /\ queued' = queued]_vars
    \* suspended at the yield of the IGNORE record while the writer has it,
    \* the call returns as soon as it is resumed
    /\ [][(/\ pass = 0 /\ error = "none" /\ stack # << >>
            /\ Top.fn = "_load_module" /\ Top.pc = "ignored")
           => /\ received' = received
              /\ stack' = IF IsNone(at_yield) THEN Pop ELSE stack
              /\ queue' = queue /\ queued' = queued]_vars

\* Witness of C34: two calls have returned.  The first, for a module with
\* members whose name is in ignore, emitted the IGNORE record and nothing
\* else; the second, for the same module, which was then in seen, emitted
\* nothing; no module was queued.
C34_Witness ==
    /\ pass = 0 /\ stack = << >> /\ Len(input) = 2
    /\ input[1].module \notin input[1].seen
    /\ ObjName(input[1].module) \in ignore \ done
    /\ members[input[1].module] \cap Modules # {}
    /\ input[2].module = input[1].module
    /\ input[2].module \in input[2].seen
    /\ input[2].at = 1 /\ Len(received) = 1
    /\ received[1] = ModuleData(ObjName(input[1].module), None, Some("IGNORE"),
                                Some(IgnoreReason(ObjName(input[1].module))))
    /\ queued = {}

\* Second witness of C34: a call for a module whose name is in done, and
\* which has members, has returned and the stream is empty.
C34_WitnessDone ==
    /\ pass = 0 /\ stack = << >> /\ Len(input) = 1
    /\ ObjName(input[1].module) \in done
    /\ members[input[1].module] # {}
    /\ received = << >> /\ queued = {}

\* C35: at the end of a run, every HoudiniStaticData record the writer
\* received has its row in houdini_module_data, with the name, type,
\* parent_name and parent_type of the record, also when several classes or
\* modules have a member of the same name and kind.
C35_EveryRecordHasItsRow ==
    (pass = 0 /\ mip_pc = "end" /\ error = "none") =>
        \A p \in 1..Len(received) :
            IsStaticData(p) =>
                \E i \in 1..Len(houdini_module_data) :
                    /\ houdini_module_data[i].name = DataRow(received[p]).name
                    /\ houdini_module_data[i].type = DataRow(received[p]).type
                    /\ houdini_module_data[i].parent_name = DataRow(received[p]).parent_name
                    /\ houdini_module_data[i].parent_type = DataRow(received[p]).parent_type

\* C36: the pipeline is lazy.  import_module is called for a candidate only
\* when the walk of the module yielded before it is over, the records of its
\* queued nested modules included: no generator of the walker is active and
\* the queue is empty.  At no point is more than one imported root module
\* produced and not fully walked: at most one import_or_warn generator is
\* suspended at its yield, and at most one top call of _load_module is active.
C36_LazyPipeline ==
    /\ [](/\ Cardinality({ i \in 1..Len(imports) :
                             ImportedModule(i) /\ IsNone(imports[i].after) }) <= 1
          /\ Cardinality({ i \in 1..Len(stack) : stack[i].top }) <= 1)
    /\ [][Len(imports') > Len(imports) => (stack = << >> /\ queue = << >>)]_vars

\* Two candidates were imported and walked, and between the two imports a
\* nested module of the first was taken from the queue and walked.
C36_Witness ==
    \E i, k \in 1..Len(imports) :
        /\ i < k /\ ImportedModule(i) /\ ImportedModule(k)
        /\ Len(received) > imports[k].at
        /\ \E p \in (imports[i].at + 1)..(imports[k].at - 1) :
             /\ Opens(p) /\ IsStaticData(p + 1)
             /\ ~IsNone(received[p + 1].parent_name)

\* C37: when the run has ended normally and the context of analysis_db_writer
\* has been left, every row the writer inserted or updated is committed: no
\* transaction is pending and the committed tables are the tables of the
\* connection, whether the writer opened the database from a path or was
\* given a connection (for a consumer that runs each generator of the writer
\* to its end).
C37_RunEndCommitted ==
    (/\ (pass = 2 /\ received = << >>) \/ pass = 3
     /\ error = "none" /\ consumer = "drain") =>
        /\ ~in_txn
        /\ committed = Tables(houdini_modules, houdini_module_data)

\* C38: an entity whose value type is EnumValue and whose name is not
\* "EnumValue" is recorded with type ENUM, and with the datatype of its
\* parent when it has one.
C38_EnumValueTakesParentType ==
    (pass = 9 /\ ~IsNone(output) /\ TypeName(input.item) = "EnumValue"
       /\ output[1].name # "EnumValue") =>
        /\ output[1].type = "ENUM"
        /\ ~IsNone(input.parent) => output[1].datatype = input.parent[1].datatype

\* A frame of the object is still before the yield of the object's entity.
BeforeOwnEntity(o) ==
    \E k \in 1..Len(stack) : stack[k].obj = o /\ stack[k].pc \in {"enter", "datum"}

\* The walker has emitted the entity of the object.
OwnEntityEmitted(o) ==
    \E p \in 1..Len(received) : IsStaticData(p) /\ received[p].name = ObjName(o)

\* The walk has come to its end without an exception.
WalkEnded == pass = 0 /\ error = "none" /\ mip_pc = "end" /\ stack = << >>

\* C39: when enumerating the members of a module or class raises, the object
\* is treated as having no members and the walk continues: the exception does
\* not end the run, the entity of the object itself is emitted (for a module,
\* when the module was opened), no entity has the object as its parent, and
\* at the end of the walk every module and class that a walked, reflectable
\* object holds has been walked too, those after the failing object included.
C39_MembersErrorMeansNoMembers ==
    /\ error # "OperationFailed"
    /\ \A o \in seen :
         (/\ GetMembersRaises(o) /\ ~BeforeOwnEntity(o)
          /\ o \in Modules =>
               \E p \in 1..Len(received) :
                  Opens(p) /\ received[p].name = ObjName(o))
           => OwnEntityEmitted(o)
    /\ \A p \in 1..Len(received), o \in Containers :
         (IsStaticData(p) /\ GetMembersRaises(o))
           => received[p].parent_name # Some(ObjName(o))
    /\ WalkEnded =>
         \A c \in seen : ~GetMembersRaises(c) /\ c \in Containers =>
            \A m \in members[c] \cap Containers : m \in seen

\* A walk has ended in which the class X, which cannot be reflected, was found
\* in module "a" before the module "b": X has its entity, and "b" was walked
\* after it.
C39_Witness ==
    /\ WalkEnded
    /\ "kx" \in members["ma"] /\ "mb" \in members["ma"]
    /\ \E p, q \in 1..Len(received) :
         /\ p < q
         /\ IsStaticData(p) /\ received[p].name = "X"
         /\ IsStaticData(q) /\ received[q].name = "b" /\ received[q].type = "MODULE"

\* C40: building a table descriptor for invalid input raises ValueError, for a
\* class that is not a dataclass and for a dataclass that has no fields.
C40_InvalidClassRaisesValueError ==
    (/\ pass = 10 /\ ~IsNone(output)
     /\ \/ ~input.dataclass.is_dataclass
        \/ input.dataclass.fields = << >>) =>
        /\ ~IsNone(output[1].raised)
        /\ output[1].raised[1][1] = "ValueError"
====
